---- MODULE Spec2Model ----
(***************************************************************************)
(* A model of the fstree path algebra (fstree/path.py), of the names of    *)
(* tar files (fstree/tarname.py), of cached properties                     *)
(* (fstree/cacheprop.py) and of the path utilities (fstree/utils.py).      *)
(*                                                                         *)
(* A Python string is a sequence of one-character strings, so that         *)
(* str.startswith, str.split and the ordering of strings are computed and  *)
(* not assumed.  An FSPath is a record: elems is the tuple itself,         *)
(* absolute is _absolute and parents is _parents.                          *)
(*                                                                         *)
(* The state is the record of the last call made on the class (which       *)
(* method, its operands, what it returned or raised); the next call takes  *)
(* its operands from the values of that record or from a string.  registry *)
(* is the class state of Compression and lookups the keys that the last    *)
(* call looked up in it.  cwd is the working directory of the process.     *)
(* Spec is the calls on FSPath, SpecTar the calls on a TarFileName,        *)
(* SpecReg the declarations of Compression, SpecCache the reads of cached  *)
(* properties, SpecWork the uses of workdir and SpecRel the construction   *)
(* of a RelPath.                                                           *)
(***************************************************************************)
EXTENDS Integers, Sequences, FiniteSets, TLC

VARIABLES op, path, self, arg, out, ret, err, calls, registry, lookups, cwd

vars == <<op, path, self, arg, out, ret, err, calls, registry, lookups, cwd>>

----------------------------------------------------------------------------
(* Bounds of the model.                                                    *)

\* the longest string a caller passes has this many separated components
MaxComps == 2

\* a behaviour makes at most this many calls
MaxCalls == 3

----------------------------------------------------------------------------
(* Strings.                                                                *)

root == <<"/">>
sep == <<"/">>
curdir == <<".">>
pardir == <<".", ".">>

\* the code point of a character, for the ordering of strings
Ord(c) ==
    CASE c = "." -> 46
      [] c = "/" -> 47
      [] c = "a" -> 97
      [] c = "b" -> 98
      [] c = "c" -> 99
      [] c = "x" -> 120

\* seq[lo:] and seq[:hi] of Python, for 0 <= lo and 0 <= hi (0-based)
SliceFrom(seq, lo) == SubSeq(seq, lo + 1, Len(seq))
SliceTo(seq, hi) == SubSeq(seq, 1, IF hi < Len(seq) THEN hi ELSE Len(seq))

\* seq[:-k] of Python for k > 0: nothing is left when k exceeds the length
SliceDropLast(seq, k) == SliceTo(seq, IF Len(seq) - k > 0 THEN Len(seq) - k ELSE 0)

\* str.startswith
startswith(s, prefix) ==
    /\ Len(s) >= Len(prefix)
    /\ SubSeq(s, 1, Len(prefix)) = prefix

\* the first position at which delim occurs in s, 0 if it does not occur
Find(s, delim) ==
    LET hits == {i \in 1..(Len(s) - Len(delim) + 1) :
                    SubSeq(s, i, i + Len(delim) - 1) = delim}
    IN  IF hits = {} THEN 0 ELSE CHOOSE i \in hits : \A j \in hits : i <= j

\* str.split(delim): empty components are kept, "" splits into [""]
RECURSIVE split(_, _)
split(s, delim) ==
    LET i == Find(s, delim)
    IN  IF i = 0
        THEN <<s>>
        ELSE <<SubSeq(s, 1, i - 1)>> \o split(SliceFrom(s, i + Len(delim) - 1), delim)

\* delim.join(comps)
RECURSIVE join(_, _)
join(comps, delim) ==
    IF comps = <<>> THEN <<>>
    ELSE IF Len(comps) = 1 THEN comps[1]
    ELSE comps[1] \o delim \o join(Tail(comps), delim)

\* s < t for two strings, or for two tuples of strings: Python compares the
\* first items that differ, and the shorter sequence is smaller when one is a
\* prefix of the other
RECURSIVE StrLess(_, _)
StrLess(s, t) ==
    IF s = <<>> THEN t # <<>>
    ELSE IF t = <<>> THEN FALSE
    ELSE IF Head(s) = Head(t) THEN StrLess(Tail(s), Tail(t))
    ELSE Ord(Head(s)) < Ord(Head(t))

RECURSIVE TupleLess(_, _)
TupleLess(s, t) ==
    IF s = <<>> THEN t # <<>>
    ELSE IF t = <<>> THEN FALSE
    ELSE IF Head(s) = Head(t) THEN TupleLess(Tail(s), Tail(t))
    ELSE StrLess(Head(s), Head(t))

\* CommonScan, keeping the first item that differs
RECURSIVE CommonScan_KeepsDiffering(_, _, _)
CommonScan_KeepsDiffering(s1, s2, i) ==
    IF i > Len(s1) THEN s1
    ELSE IF s1[i] # s2[i] THEN SubSeq(s1, 1, i)
    ELSE CommonScan_KeepsDiffering(s1, s2, i + 1)

\* os.path.commonprefix([x, y]) on two tuples: the items of min(x, y) up to
\* the first one that differs from the item of max(x, y) at the same index
RECURSIVE CommonScan(_, _, _)
CommonScan(s1, s2, i) ==
    IF i > Len(s1) THEN s1
    ELSE IF s1[i] # s2[i] THEN SubSeq(s1, 1, i - 1)
    ELSE CommonScan(s1, s2, i + 1)

commonprefix(x, y) ==
    LET s1 == IF TupleLess(y, x) THEN y ELSE x
        s2 == IF TupleLess(x, y) THEN y ELSE x
    IN  CommonScan(s1, s2, 1)

----------------------------------------------------------------------------
(* FSPath values.                                                          *)

FSPath(elems, parents, absolute) ==
    [elems |-> elems, absolute |-> absolute, parents |-> parents]

\* no FSPath: the default of the relative argument, the result of a call
\* that raised
None == [elems |-> <<>>, absolute |-> FALSE, parents |-> 0 - 1]

\* no string
NoStr == <<"None">>

\* NormalizeFrom, popping whatever the last item is, a parent marker too
RECURSIVE NormalizeFrom_PopsParents(_, _, _, _, _)
NormalizeFrom_PopsParents(comps, i, path_elems, parents, absolute) ==
    IF i > Len(comps) THEN FSPath(path_elems, parents, absolute)
    ELSE LET elem == comps[i]
         IN  IF elem = <<>> \/ elem = curdir
             THEN NormalizeFrom_PopsParents(comps, i + 1, path_elems, parents, absolute)
             ELSE IF elem = pardir
             THEN IF absolute \/ path_elems # <<>>
                  THEN NormalizeFrom_PopsParents(comps, i + 1,
                                     IF path_elems = <<>> THEN <<>>
                                     ELSE SubSeq(path_elems, 1, Len(path_elems) - 1),
                                     parents, absolute)
                  ELSE NormalizeFrom_PopsParents(comps, i + 1, Append(path_elems, pardir),
                                     parents + 1, absolute)
             ELSE NormalizeFrom_PopsParents(comps, i + 1, Append(path_elems, elem),
                                            parents, absolute)

\* the normalizing loop of FSPath.__new__ from component i on
RECURSIVE NormalizeFrom(_, _, _, _, _)
NormalizeFrom(comps, i, path_elems, parents, absolute) ==
    IF i > Len(comps) THEN FSPath(path_elems, parents, absolute)
    ELSE LET elem == comps[i]
         IN  IF elem = <<>> \/ elem = curdir
             THEN NormalizeFrom(comps, i + 1, path_elems, parents, absolute)
             ELSE IF elem = pardir
             THEN IF absolute \/ (path_elems # <<>> /\ path_elems[Len(path_elems)] # pardir)
                  THEN NormalizeFrom(comps, i + 1,
                                     IF path_elems = <<>> THEN <<>>
                                     ELSE SubSeq(path_elems, 1, Len(path_elems) - 1),
                                     parents, absolute)
                  ELSE NormalizeFrom(comps, i + 1, Append(path_elems, pardir),
                                     parents + 1, absolute)
             ELSE NormalizeFrom(comps, i + 1, Append(path_elems, elem), parents, absolute)

\* FSPath_new, absolute when no reference is given
FSPath_new_DefaultAbsolute(s, ref) ==
    IF startswith(s, root) \/ ref = None
    THEN NormalizeFrom(split(s, sep), 1, <<>>, 0, TRUE)
    ELSE NormalizeFrom(split(s, sep), 1, ref.elems, 0, TRUE)

\* FSPath_new, starting from no segments when a reference is given
FSPath_new_IgnoresReference(s, ref) ==
    IF startswith(s, root) \/ ref = None
    THEN NormalizeFrom(split(s, sep), 1, <<>>, 0, startswith(s, root))
    ELSE NormalizeFrom(split(s, sep), 1, <<>>, 0, TRUE)

\* FSPath(s, relative=ref) for a string s
FSPath_new(s, ref) ==
    IF startswith(s, root) \/ ref = None
    THEN NormalizeFrom(split(s, sep), 1, <<>>, 0, startswith(s, root))
    ELSE NormalizeFrom(split(s, sep), 1, ref.elems, 0, TRUE)

\* k copies of the parent marker
Pardirs(k) == [j \in 1..k |-> pardir]

\* FSPath_relative, counting the parents from the target and not the start
FSPath_relative_TargetLen(this, start) ==
    IF this.absolute # start.absolute
    THEN [out |-> None, err |-> "ValueError"]
    ELSE LET i == Len(commonprefix(this.elems, start.elems))
             parents == Len(this.elems) - i
         IN  [out |-> FSPath(Pardirs(parents) \o SliceFrom(this.elems, i), parents, FALSE),
              err |-> ""]

\* FSPath.relative: the value returned, or the error raised
FSPath_relative(this, start) ==
    IF this.absolute # start.absolute
    THEN [out |-> None, err |-> "ValueError"]
    ELSE LET i == Len(commonprefix(this.elems, start.elems))
             parents == Len(start.elems) - i
         IN  [out |-> FSPath(Pardirs(parents) \o SliceFrom(this.elems, i), parents, FALSE),
              err |-> ""]

\* FSPath_absolute, keeping the parents of the relative path
FSPath_absolute_KeepsParents(this, relative) ==
    IF this.absolute THEN [out |-> this, err |-> ""]
    ELSE IF ~relative.absolute THEN [out |-> None, err |-> "ValueError"]
    ELSE LET rel == IF this.parents # 0
                    THEN SliceDropLast(relative.elems, this.parents)
                    ELSE relative.elems
         IN  [out |-> FSPath(rel \o SliceFrom(this.elems, this.parents), this.parents, TRUE),
              err |-> ""]

\* FSPath_absolute, slicing relative[:-parents] when parents is 0 as well,
\* which leaves nothing of the reference
FSPath_absolute_Unguarded(this, relative) ==
    IF this.absolute THEN [out |-> this, err |-> ""]
    ELSE IF ~relative.absolute THEN [out |-> None, err |-> "ValueError"]
    ELSE LET rel == IF this.parents # 0
                    THEN SliceDropLast(relative.elems, this.parents)
                    ELSE <<>>
         IN  [out |-> FSPath(rel \o SliceFrom(this.elems, this.parents), 0, TRUE),
              err |-> ""]

\* FSPath_absolute, checking the reference before anything else
FSPath_absolute_ChecksFirst(this, relative) ==
    IF ~relative.absolute THEN [out |-> None, err |-> "ValueError"]
    ELSE IF this.absolute THEN [out |-> this, err |-> ""]
    ELSE LET rel == IF this.parents # 0
                    THEN SliceDropLast(relative.elems, this.parents)
                    ELSE relative.elems
         IN  [out |-> FSPath(rel \o SliceFrom(this.elems, this.parents), 0, TRUE),
              err |-> ""]

\* FSPath.absolute: the value returned, or the error raised
FSPath_absolute(this, relative) ==
    IF this.absolute THEN [out |-> this, err |-> ""]
    ELSE IF ~relative.absolute THEN [out |-> None, err |-> "ValueError"]
    ELSE LET rel == IF this.parents # 0
                    THEN SliceDropLast(relative.elems, this.parents)
                    ELSE relative.elems
         IN  [out |-> FSPath(rel \o SliceFrom(this.elems, this.parents), 0, TRUE),
              err |-> ""]

\* FSPath.non_absolute
FSPath_non_absolute(this) ==
    IF this.absolute THEN FSPath(this.elems, 0, FALSE) ELSE this

\* FSPath.__hash__ hashes this pair
FSPath_hash(this) == <<this.absolute, this.elems>>

\* FSPath_eq, comparing the parents too
FSPath_eq_WithParents(this, other) ==
    <<this.absolute, this.elems, this.parents>> = <<other.absolute, other.elems, other.parents>>

\* FSPath.__eq__ and FSPath.__ne__, the other operand already an FSPath
FSPath_eq(this, other) == <<this.absolute, this.elems>> = <<other.absolute, other.elems>>
FSPath_ne(this, other) == <<this.absolute, this.elems>> # <<other.absolute, other.elems>>

\* the loop of os.path.normpath over the components, from component i on
RECURSIVE NormpathFrom(_, _, _, _)
NormpathFrom(comps, i, new_comps, initial_slashes) ==
    IF i > Len(comps) THEN new_comps
    ELSE LET comp == comps[i]
         IN  IF comp = <<>> \/ comp = curdir
             THEN NormpathFrom(comps, i + 1, new_comps, initial_slashes)
             ELSE IF \/ comp # pardir
                     \/ (initial_slashes = 0 /\ new_comps = <<>>)
                     \/ (new_comps # <<>> /\ new_comps[Len(new_comps)] = pardir)
             THEN NormpathFrom(comps, i + 1, Append(new_comps, comp), initial_slashes)
             ELSE IF new_comps # <<>>
             THEN NormpathFrom(comps, i + 1, SliceDropLast(new_comps, 1), initial_slashes)
             ELSE NormpathFrom(comps, i + 1, new_comps, initial_slashes)

\* os.path.normpath(path), as split_system_path calls it
os_path_normpath(p) ==
    IF p = <<>> THEN curdir
    ELSE LET initial_slashes ==
                 IF ~startswith(p, sep) THEN 0
                 ELSE IF startswith(p, sep \o sep) /\ ~startswith(p, sep \o sep \o sep)
                 THEN 2 ELSE 1
             comps == NormpathFrom(split(p, sep), 1, <<>>, initial_slashes)
             joined == [j \in 1..initial_slashes |-> "/"] \o join(comps, sep)
         IN  IF joined = <<>> THEN curdir ELSE joined

\* os.path.join(a, *p), as get_system_path and split_system_path call it
RECURSIVE os_path_join(_, _)
os_path_join(a, p) ==
    IF p = <<>> THEN a
    ELSE LET b == p[1]
         IN  os_path_join(IF startswith(b, sep) THEN b
                          ELSE IF a = <<>> \/ a[Len(a)] = "/" THEN a \o b
                          ELSE a \o sep \o b,
                          Tail(p))

\* FSPath.split_system_path
FSPath_split_system_path(this, syspath) ==
    LET npath == os_path_normpath(syspath)
    IN  IF this.absolute
        THEN [ret |-> FALSE, err |-> "cannot split with an absolute path"]
        ELSE IF this.parents # 0 /\ Len(this.elems) > this.parents
        THEN [ret |-> FALSE, err |-> "cannot split with this path"]
        ELSE IF this.parents = 0
        THEN [ret |-> <<npath, IF this.elems # <<>>
                               THEN os_path_join(this.elems[1], Tail(this.elems))
                               ELSE curdir>>,
              err |-> ""]
        ELSE LET parent == os_path_normpath(os_path_join(npath, this.elems))
             IN  [ret |-> <<parent, SliceFrom(npath, Len(parent) + Len(sep))>>,
                  err |-> ""]

\* str(p) without the special case of the empty relative path
FSPath_str_NoCurdir(this) ==
    (IF this.absolute THEN root ELSE <<>>) \o join(this.elems, sep)

\* FSPath.remainder
FSPath_remainder(this) == join(SliceFrom(this.elems, this.parents), sep)

\* FSPath.__str__
FSPath_str(this) ==
    IF ~this.absolute /\ Len(this.elems) = 0 THEN curdir
    ELSE (IF this.absolute THEN root ELSE <<>>) \o join(this.elems, sep)

----------------------------------------------------------------------------
(* The registry of compressions (fstree/tarname.py).  A dict is a function *)
(* over its keys; a key that may be absent from a dict is a field that may *)
(* be absent from the record.                                              *)

\* d.get(key)
DictGet(d, key) == IF key \in DOMAIN d THEN d[key] ELSE None

\* d.update(e)
DictUpdate(d, e) ==
    [k \in DOMAIN d \cup DOMAIN e |-> IF k \in DOMAIN e THEN e[k] ELSE d[k]]

s_tar == <<"t", "a", "r">>

\* Compression._compressions and Compression._extensions of the class body
Compression_registry ==
    [compressions |-> <<>>,
     extensions |-> (s_tar :> [has_tar_ext |-> TRUE])]

\* Compression.lookup_compression
lookup_compression(reg, name) == DictGet(reg.compressions, name)

\* Compression.lookup_extension
lookup_extension(reg, ext) == DictGet(reg.extensions, SliceFrom(ext, 1))

\* Compression(name, supported, *extensions) without the check that the
\* extensions are not declared yet
Compression_new_NoCollisionCheck(reg, name, supported, extensions) ==
    IF name \in DOMAIN reg.compressions
    THEN [reg |-> reg, obj |-> None, err |-> "compression format already declared"]
    ELSE IF extensions = <<>>
    THEN [reg |-> reg, obj |-> None, err |-> "at least one extension must be provided"]
    ELSE LET obj == [name |-> name, supported |-> supported,
                     extension |-> <<".">> \o extensions[1]]
             keys == {extensions[i] : i \in 1..Len(extensions)}
             last(k) == CHOOSE i \in 1..Len(extensions) :
                            /\ extensions[i] = k
                            /\ \A j \in (i + 1)..Len(extensions) : extensions[j] # k
             added == [k \in keys |->
                          IF last(k) = 1 THEN [compression |-> obj]
                          ELSE [compression |-> obj, has_tar_ext |-> TRUE]]
         IN  [reg |-> [compressions |-> (name :> obj) @@ reg.compressions,
                       extensions |-> DictUpdate(reg.extensions, added)],
              obj |-> obj, err |-> ""]

\* Compression(name, supported, *extensions): the registry after the call,
\* the object returned and the error raised
Compression_new(reg, name, supported, extensions) ==
    IF name \in DOMAIN reg.compressions
    THEN [reg |-> reg, obj |-> None, err |-> "compression format already declared"]
    ELSE IF extensions = <<>>
    THEN [reg |-> reg, obj |-> None, err |-> "at least one extension must be provided"]
    ELSE IF \E i \in 1..Len(extensions) : extensions[i] \in DOMAIN reg.extensions
    THEN [reg |-> reg, obj |-> None,
          err |-> "extensions already declared for other compressions"]
    ELSE LET obj == [name |-> name, supported |-> supported,
                     extension |-> <<".">> \o extensions[1]]
             keys == {extensions[i] : i \in 1..Len(extensions)}
             last(k) == CHOOSE i \in 1..Len(extensions) :
                            /\ extensions[i] = k
                            /\ \A j \in (i + 1)..Len(extensions) : extensions[j] # k
             added == [k \in keys |->
                          IF last(k) = 1 THEN [compression |-> obj]
                          ELSE [compression |-> obj, has_tar_ext |-> TRUE]]
         IN  [reg |-> [compressions |-> (name :> obj) @@ reg.compressions,
                       extensions |-> DictUpdate(reg.extensions, added)],
              obj |-> obj, err |-> ""]

\* the compressions declared as the module is loaded; six.PY3 is py3
Declared(py3) ==
    << <<<<"g", "z">>, TRUE,
         << <<"g", "z">>, <<"t", "g", "z">>, <<"t", "a", "z">> >> >>,
       <<<<"Z">>, FALSE,
         << <<"Z">>, <<"t", "a", "Z">> >> >>,
       <<<<"b", "z", "2">>, TRUE,
         << <<"b", "z", "2">>, <<"t", "b", "z">>, <<"t", "b", "z", "2">>,
            <<"t", "z", "2">> >> >>,
       <<<<"l", "z">>, FALSE,
         << <<"l", "z">> >> >>,
       <<<<"l", "z", "m", "a">>, FALSE,
         << <<"l", "z", "m", "a">>, <<"t", "l", "z">> >> >>,
       <<<<"l", "z", "o">>, FALSE,
         << <<"l", "z", "o">> >> >>,
       <<<<"x", "z">>, py3,
         << <<"x", "z">>, <<"t", "x", "z">> >> >> >>

\* the registry after the first n declarations
RECURSIVE RegistryAfter(_, _)
RegistryAfter(py3, n) ==
    IF n = 0 THEN Compression_registry
    ELSE LET d == Declared(py3)[n]
         IN  Compression_new(RegistryAfter(py3, n - 1), d[1], d[2], d[3]).reg

\* the registry once the module is loaded, under Python 2 and 3
LoadedPy2 == RegistryAfter(FALSE, Len(Declared(FALSE)))
LoadedPy3 == RegistryAfter(TRUE, Len(Declared(TRUE)))

----------------------------------------------------------------------------
(* TarFileName (fstree/tarname.py).  A TarFileName is a record: basename   *)
(* and extensions are the attributes, compression is _compression.         *)

\* utils.unset
unset == [unset |-> TRUE]

\* a str object that is passed where another kind of object may be passed
PyStr(s) == [str |-> s]

\* isinstance(v, Compression)
IsCompression(v) == DOMAIN v = {"name", "supported", "extension"}

\* s.rfind(c) + 1: the place of the last c in s, 0 when there is none
RFind(s, c) ==
    IF \E i \in 1..Len(s) : s[i] = c
    THEN CHOOSE i \in 1..Len(s) : s[i] = c /\ \A j \in (i + 1)..Len(s) : s[j] # c
    ELSE 0

\* s.rstrip(c)
RECURSIVE rstrip(_, _)
rstrip(s, c) ==
    IF s # <<>> /\ s[Len(s)] = c THEN rstrip(SliceDropLast(s, 1), c) ELSE s

\* os.path.split(p)
os_path_split(p) ==
    LET i == RFind(p, "/")
        head == SliceTo(p, i)
        tail == SliceFrom(p, i)
    IN  <<IF head # <<>> /\ \E j \in 1..Len(head) : head[j] # "/"
          THEN rstrip(head, "/") ELSE head,
          tail>>

\* os.path.splitext(p): the extension starts at the last dot, when that dot
\* is after the last separator and after a character that is not a dot
os_path_splitext(p) ==
    LET sepIndex == RFind(p, "/")
        dotIndex == RFind(p, ".")
    IN  IF /\ dotIndex > sepIndex
           /\ \E j \in (sepIndex + 1)..(dotIndex - 1) : p[j] # "."
        THEN <<SliceTo(p, dotIndex - 1), SliceFrom(p, dotIndex - 1)>>
        ELSE <<p, <<>>>>

\* the loop of TarFileName.__init__ going on after an archive extension
RECURSIVE StripExtensions_PastTar(_, _, _, _, _)
StripExtensions_PastTar(reg, basename, extensions, state, looked) ==
    LET ext == os_path_splitext(basename)[2]
        data == lookup_extension(reg, ext)
    IN  IF ext = <<>>
        THEN [basename |-> basename, extensions |-> extensions,
              state |-> state, looked |-> looked, err |-> ""]
        ELSE IF data = None \/ DOMAIN data = {}
        THEN [basename |-> basename, extensions |-> extensions,
              state |-> state, looked |-> Append(looked, ext), err |-> ""]
        ELSE IF "compression" \in DOMAIN data /\ state.compression # unset
        THEN [basename |-> basename, extensions |-> extensions,
              state |-> state, looked |-> Append(looked, ext),
              err |-> IF state.compression = data.compression
                      THEN "tar filename references compression twice"
                      ELSE "tar filename contains both compressions"]
        ELSE IF "compression" \in DOMAIN data /\ ~data.compression.supported
        THEN [basename |-> basename, extensions |-> extensions,
              state |-> state, looked |-> Append(looked, ext),
              err |-> "compression format not supported"]
        ELSE StripExtensions_PastTar(reg, os_path_splitext(basename)[1],
                             <<ext>> \o extensions, DictUpdate(state, data),
                             Append(looked, ext))

\* the loop of TarFileName.__init__ with the second compression allowed
RECURSIVE StripExtensions_AllowsSecond(_, _, _, _, _)
StripExtensions_AllowsSecond(reg, basename, extensions, state, looked) ==
    IF state.has_tar_ext
    THEN [basename |-> basename, extensions |-> extensions, state |-> state,
          looked |-> looked, err |-> ""]
    ELSE LET ext == os_path_splitext(basename)[2]
             data == lookup_extension(reg, ext)
         IN  IF ext = <<>>
             THEN [basename |-> basename, extensions |-> extensions,
                   state |-> state, looked |-> looked, err |-> ""]
             ELSE IF data = None \/ DOMAIN data = {}
             THEN [basename |-> basename, extensions |-> extensions,
                   state |-> state, looked |-> Append(looked, ext), err |-> ""]
             ELSE IF "compression" \in DOMAIN data /\ ~data.compression.supported
             THEN [basename |-> basename, extensions |-> extensions,
                   state |-> state, looked |-> Append(looked, ext),
                   err |-> "compression format not supported"]
             ELSE StripExtensions_AllowsSecond(reg, os_path_splitext(basename)[1],
                                  <<ext>> \o extensions, DictUpdate(state, data),
                                  Append(looked, ext))

\* the loop of TarFileName.__init__: what is left of basename, the
\* extensions taken off it, the state, the extensions looked up and the
\* error raised
RECURSIVE StripExtensions(_, _, _, _, _)
StripExtensions(reg, basename, extensions, state, looked) ==
    IF state.has_tar_ext
    THEN [basename |-> basename, extensions |-> extensions, state |-> state,
          looked |-> looked, err |-> ""]
    ELSE LET ext == os_path_splitext(basename)[2]
             data == lookup_extension(reg, ext)
         IN  IF ext = <<>>
             THEN [basename |-> basename, extensions |-> extensions,
                   state |-> state, looked |-> looked, err |-> ""]
             ELSE IF data = None \/ DOMAIN data = {}
             THEN [basename |-> basename, extensions |-> extensions,
                   state |-> state, looked |-> Append(looked, ext), err |-> ""]
             ELSE IF "compression" \in DOMAIN data /\ state.compression # unset
             THEN [basename |-> basename, extensions |-> extensions,
                   state |-> state, looked |-> Append(looked, ext),
                   err |-> IF state.compression = data.compression
                           THEN "tar filename references compression twice"
                           ELSE "tar filename contains both compressions"]
             ELSE IF "compression" \in DOMAIN data /\ ~data.compression.supported
             THEN [basename |-> basename, extensions |-> extensions,
                   state |-> state, looked |-> Append(looked, ext),
                   err |-> "compression format not supported"]
             ELSE StripExtensions(reg, os_path_splitext(basename)[1],
                                  <<ext>> \o extensions, DictUpdate(state, data),
                                  Append(looked, ext))

\* TarFileName(filename) without the ".tar" put in front when no extension
\* with the archive flag was taken off
TarFileName_init_NoDefaultTar(reg, filename) ==
    LET dirname == os_path_split(filename)[1]
        r == StripExtensions(reg, os_path_split(filename)[2], <<>>,
                             [compression |-> unset, has_tar_ext |-> FALSE], <<>>)
    IN  IF r.err # ""
        THEN [obj |-> None, looked |-> r.looked, err |-> r.err]
        ELSE IF r.state.compression # unset /\ ~r.state.has_tar_ext
        THEN [obj |-> None, looked |-> r.looked,
              err |-> "tar filename contains compression but no '.tar' extension"]
        ELSE [obj |-> [basename |-> os_path_join(dirname, <<r.basename>>),
                       extensions |-> r.extensions,
                       compression |-> r.state.compression],
              looked |-> r.looked, err |-> ""]

\* TarFileName(filename) without the check made after the loop
TarFileName_init_NoTarCheck(reg, filename) ==
    LET dirname == os_path_split(filename)[1]
        r == StripExtensions(reg, os_path_split(filename)[2], <<>>,
                             [compression |-> unset, has_tar_ext |-> FALSE], <<>>)
    IN  IF r.err # ""
        THEN [obj |-> None, looked |-> r.looked, err |-> r.err]
        ELSE [obj |-> [basename |-> os_path_join(dirname, <<r.basename>>),
                       extensions |-> IF ~r.state.has_tar_ext
                                      THEN <<<<".">> \o s_tar>> \o r.extensions
                                      ELSE r.extensions,
                       compression |-> r.state.compression],
              looked |-> r.looked, err |-> ""]

\* TarFileName(filename): the object made, the extensions looked up and the
\* error raised
TarFileName_init(reg, filename) ==
    LET dirname == os_path_split(filename)[1]
        r == StripExtensions(reg, os_path_split(filename)[2], <<>>,
                             [compression |-> unset, has_tar_ext |-> FALSE], <<>>)
    IN  IF r.err # ""
        THEN [obj |-> None, looked |-> r.looked, err |-> r.err]
        ELSE IF r.state.compression # unset /\ ~r.state.has_tar_ext
        THEN [obj |-> None, looked |-> r.looked,
              err |-> "tar filename contains compression but no '.tar' extension"]
        ELSE [obj |-> [basename |-> os_path_join(dirname, <<r.basename>>),
                       extensions |-> IF ~r.state.has_tar_ext
                                      THEN <<<<".">> \o s_tar>> \o r.extensions
                                      ELSE r.extensions,
                       compression |-> r.state.compression],
              looked |-> r.looked, err |-> ""]

\* TarFileName.__str__ without the extensions
TarFileName_str_BaseOnly(this) == this.basename

\* TarFileName.__str__
TarFileName_str(this) == this.basename \o join(this.extensions, <<>>)

\* TarFileName.compression
TarFileName_compression(this) ==
    IF this.compression = unset THEN None ELSE this.compression

\* the assignment to compression without the check that it is supported
TarFileName_set_compression_NoSupportCheck(reg, this, compression) ==
    IF this.compression # unset
    THEN [obj |-> this, looked |-> <<>>, err |-> "compression is already set"]
    ELSE IF compression = None \/ compression = PyStr(<<>>)
    THEN [obj |-> [this EXCEPT !.compression = compression],
          looked |-> <<>>, err |-> ""]
    ELSE LET descriptor == IF IsCompression(compression) THEN compression
                           ELSE lookup_compression(reg, compression.str)
             looked == IF IsCompression(compression) THEN <<>>
                       ELSE <<compression.str>>
         IN  IF descriptor = None
             THEN [obj |-> this, looked |-> looked,
                   err |-> "unknown compression scheme"]
             ELSE [obj |-> [this EXCEPT
                               !.extensions = Append(@, descriptor.extension),
                               !.compression = descriptor],
                   looked |-> looked, err |-> ""]

\* the assignment to compression, allowed again after None was assigned
TarFileName_set_compression_NoneIsUnset(reg, this, compression) ==
    IF this.compression # unset /\ this.compression # None
    THEN [obj |-> this, looked |-> <<>>, err |-> "compression is already set"]
    ELSE IF compression = None \/ compression = PyStr(<<>>)
    THEN [obj |-> [this EXCEPT !.compression = compression],
          looked |-> <<>>, err |-> ""]
    ELSE LET descriptor == IF IsCompression(compression) THEN compression
                           ELSE lookup_compression(reg, compression.str)
             looked == IF IsCompression(compression) THEN <<>>
                       ELSE <<compression.str>>
         IN  IF descriptor = None
             THEN [obj |-> this, looked |-> looked,
                   err |-> "unknown compression scheme"]
             ELSE IF ~descriptor.supported
             THEN [obj |-> this, looked |-> looked,
                   err |-> "compression scheme is unsupported"]
             ELSE [obj |-> [this EXCEPT
                               !.extensions = Append(@, descriptor.extension),
                               !.compression = descriptor],
                   looked |-> looked, err |-> ""]

\* the assignment to compression putting the extension in front
TarFileName_set_compression_Prepends(reg, this, compression) ==
    IF this.compression # unset
    THEN [obj |-> this, looked |-> <<>>, err |-> "compression is already set"]
    ELSE IF compression = None \/ compression = PyStr(<<>>)
    THEN [obj |-> [this EXCEPT !.compression = compression],
          looked |-> <<>>, err |-> ""]
    ELSE LET descriptor == IF IsCompression(compression) THEN compression
                           ELSE lookup_compression(reg, compression.str)
             looked == IF IsCompression(compression) THEN <<>>
                       ELSE <<compression.str>>
         IN  IF descriptor = None
             THEN [obj |-> this, looked |-> looked,
                   err |-> "unknown compression scheme"]
             ELSE IF ~descriptor.supported
             THEN [obj |-> this, looked |-> looked,
                   err |-> "compression scheme is unsupported"]
             ELSE [obj |-> [this EXCEPT
                               !.extensions = <<descriptor.extension>> \o @,
                               !.compression = descriptor],
                   looked |-> looked, err |-> ""]

\* the assignment to compression adding the extension before the check that
\* the compression is supported
TarFileName_set_compression_AppendsFirst(reg, this, compression) ==
    IF this.compression # unset
    THEN [obj |-> this, looked |-> <<>>, err |-> "compression is already set"]
    ELSE IF compression = None \/ compression = PyStr(<<>>)
    THEN [obj |-> [this EXCEPT !.compression = compression],
          looked |-> <<>>, err |-> ""]
    ELSE LET descriptor == IF IsCompression(compression) THEN compression
                           ELSE lookup_compression(reg, compression.str)
             looked == IF IsCompression(compression) THEN <<>>
                       ELSE <<compression.str>>
         IN  IF descriptor = None
             THEN [obj |-> this, looked |-> looked,
                   err |-> "unknown compression scheme"]
             ELSE IF ~descriptor.supported
             THEN [obj |-> [this EXCEPT !.extensions = Append(@, descriptor.extension)], looked |-> looked,
                   err |-> "compression scheme is unsupported"]
             ELSE [obj |-> [this EXCEPT
                               !.extensions = Append(@, descriptor.extension),
                               !.compression = descriptor],
                   looked |-> looked, err |-> ""]

\* TarFileName.compression = compression: the object after the assignment,
\* the names looked up and the error raised
TarFileName_set_compression(reg, this, compression) ==
    IF this.compression # unset
    THEN [obj |-> this, looked |-> <<>>, err |-> "compression is already set"]
    ELSE IF compression = None \/ compression = PyStr(<<>>)
    THEN [obj |-> [this EXCEPT !.compression = compression],
          looked |-> <<>>, err |-> ""]
    ELSE LET descriptor == IF IsCompression(compression) THEN compression
                           ELSE lookup_compression(reg, compression.str)
             looked == IF IsCompression(compression) THEN <<>>
                       ELSE <<compression.str>>
         IN  IF descriptor = None
             THEN [obj |-> this, looked |-> looked,
                   err |-> "unknown compression scheme"]
             ELSE IF ~descriptor.supported
             THEN [obj |-> this, looked |-> looked,
                   err |-> "compression scheme is unsupported"]
             ELSE [obj |-> [this EXCEPT
                               !.extensions = Append(@, descriptor.extension),
                               !.compression = descriptor],
                   looked |-> looked, err |-> ""]

----------------------------------------------------------------------------
(* Cached properties (fstree/cacheprop.py) and the class of the tests that *)
(* declares three of them.  An object is a function over the names of the  *)
(* attributes it has.                                                      *)

\* CacheProperty(func, attrs, base), as cached_property makes it: base is
\* the name of the attribute that holds the object of the control
\* attributes, "" when that is the object itself
CacheProperty(func, cache_attr, attrs, base) ==
    [func |-> func, prop |-> func, cache_attr |-> cache_attr,
     attrs |-> attrs, base |-> base]

\* the cached properties of TestClass
TestClass_props ==
    {CacheProperty("simple", "_simple", {}, ""),
     CacheProperty("under_a_b", "_under_a_b", {"a", "b"}, ""),
     CacheProperty("under_ca_cb", "_under_ca_cb", {"a", "b"}, "c")}

\* TestClass()
TestClass_init == ("calls" :> <<>>)

\* the getters of TestClass: the value returned, a format and its
\* arguments, and the object with the call recorded
TestClass_func(func, obj) ==
    LET call == CASE func = "simple" -> <<"simple">>
                  [] func = "under_a_b" -> <<"under_a_b", obj["a"], obj["b"]>>
                  [] func = "under_ca_cb" ->
                         <<"under_ca_cb", obj["c"]["a"], obj["c"]["b"]>>
    IN  [value |-> PyStr(call),
         obj |-> ("calls" :> Append(obj["calls"], call)) @@ obj]

\* CacheProperty.__call__ looking only at whether a value is cached
CacheProperty_call_IgnoresControl(cp, obj) ==
    LET obj1 == IF "__cache_control__" \in DOMAIN obj THEN obj
                ELSE ("__cache_control__" :> <<>>) @@ obj
        cache_ctrl == obj1["__cache_control__"]
        value == IF cp.cache_attr \in DOMAIN obj1 THEN obj1[cp.cache_attr]
                 ELSE unset
    IN  IF cp.base # "" /\ cp.base \notin DOMAIN obj1
        THEN [obj |-> obj1, ret |-> None, err |-> "AttributeError"]
        ELSE LET base == IF cp.base = "" THEN obj1 ELSE obj1[cp.base]
                 expected_ctrl == [attr \in cp.attrs |-> base[attr]]
             IN  IF \E attr \in cp.attrs : attr \notin DOMAIN base
                 THEN [obj |-> obj1, ret |-> None, err |-> "AttributeError"]
                 ELSE IF value = unset
                 THEN LET r == TestClass_func(cp.func, obj1)
                      IN  [obj |-> (cp.cache_attr :> r.value)
                                   @@ ("__cache_control__" :>
                                          ((cp.prop :> expected_ctrl) @@ cache_ctrl))
                                   @@ r.obj,
                           ret |-> r.value, err |-> ""]
                 ELSE [obj |-> obj1, ret |-> value, err |-> ""]

\* CacheProperty.__call__(obj): the object after the call, the value
\* returned and the error raised
CacheProperty_call(cp, obj) ==
    LET obj1 == IF "__cache_control__" \in DOMAIN obj THEN obj
                ELSE ("__cache_control__" :> <<>>) @@ obj
        cache_ctrl == obj1["__cache_control__"]
        value == IF cp.cache_attr \in DOMAIN obj1 THEN obj1[cp.cache_attr]
                 ELSE unset
    IN  IF cp.base # "" /\ cp.base \notin DOMAIN obj1
        THEN [obj |-> obj1, ret |-> None, err |-> "AttributeError"]
        ELSE LET base == IF cp.base = "" THEN obj1 ELSE obj1[cp.base]
                 expected_ctrl == [attr \in cp.attrs |-> base[attr]]
             IN  IF \E attr \in cp.attrs : attr \notin DOMAIN base
                 THEN [obj |-> obj1, ret |-> None, err |-> "AttributeError"]
                 ELSE IF \/ value = unset
                         \/ IF cp.prop \in DOMAIN cache_ctrl
                            THEN cache_ctrl[cp.prop] # expected_ctrl
                            ELSE TRUE
                 THEN LET r == TestClass_func(cp.func, obj1)
                      IN  [obj |-> (cp.cache_attr :> r.value)
                                   @@ ("__cache_control__" :>
                                          ((cp.prop :> expected_ctrl) @@ cache_ctrl))
                                   @@ r.obj,
                           ret |-> r.value, err |-> ""]
                 ELSE [obj |-> obj1, ret |-> value, err |-> ""]

----------------------------------------------------------------------------
(* The strings and the values a caller has.                                *)

\* the components a string is made of: empty, ".", ".." and a name
Tokens == {<<>>, curdir, pardir, <<"a">>}

RECURSIVE TokenSeqs(_)
TokenSeqs(k) ==
    IF k = 0 THEN {<<>>}
    ELSE {Append(cs, t) : cs \in TokenSeqs(k - 1), t \in Tokens}

\* the strings "/a/b/../c", "../../x", "/a/b/c" and "/a/x"
Examples ==
    {<<"/", "a", "/", "b", "/", ".", ".", "/", "c">>,
     <<".", ".", "/", ".", ".", "/", "x">>,
     <<"/", "a", "/", "b", "/", "c">>,
     <<"/", "a", "/", "x">>}

\* every string of 1 to MaxComps components joined by the separator, and the
\* examples (which bring longer strings and other names)
Strings ==
    UNION {{join(cs, sep) : cs \in TokenSeqs(k)} : k \in 1..MaxComps} \cup Examples

\* the FSPath values of the last call
Held == {self, arg, out} \ {None}

\* the values FSPath(s) gives for these strings
Parsed == {FSPath_new(s, None) : s \in Strings}

\* an operand that may be given as an FSPath or as a string: a string is
\* converted by FSPath(s)
Operands == Held \cup Parsed

----------------------------------------------------------------------------
(* The calls.                                                              *)

Init ==
    /\ op = "init"
    /\ path = NoStr
    /\ self = None
    /\ arg = None
    /\ out = None
    /\ ret = FALSE
    /\ err = ""
    /\ calls = 0
    /\ registry = Compression_registry
    /\ lookups = <<>>
    /\ cwd = root

\* FSPath(s) and FSPath(s, relative=ref)
New ==
    /\ calls < MaxCalls
    /\ \E s \in Strings, ref \in {None} \cup {v \in Held : v.absolute} :
          /\ op' = "new"
          /\ path' = s
          /\ self' = None
          /\ arg' = ref
          /\ out' = FSPath_new(s, ref)
          /\ ret' = FALSE
          /\ err' = ""
    /\ calls' = calls + 1
    /\ UNCHANGED <<registry, lookups, cwd>>

\* target.relative(start)
Relative ==
    /\ calls < MaxCalls
    /\ \E target \in Held, start \in Operands :
          LET r == FSPath_relative(target, start)
          IN  /\ op' = "relative"
              /\ path' = NoStr
              /\ self' = target
              /\ arg' = start
              /\ out' = r.out
              /\ ret' = FALSE
              /\ err' = r.err
    /\ calls' = calls + 1
    /\ UNCHANGED <<registry, lookups, cwd>>

\* p.absolute(reference)
Absolute ==
    /\ calls < MaxCalls
    /\ \E p \in Held, reference \in Operands :
          LET r == FSPath_absolute(p, reference)
          IN  /\ op' = "absolute"
              /\ path' = NoStr
              /\ self' = p
              /\ arg' = reference
              /\ out' = r.out
              /\ ret' = FALSE
              /\ err' = r.err
    /\ calls' = calls + 1
    /\ UNCHANGED <<registry, lookups, cwd>>

\* p.non_absolute
NonAbsolute ==
    /\ calls < MaxCalls
    /\ \E p \in Held :
          /\ op' = "non_absolute"
          /\ path' = NoStr
          /\ self' = p
          /\ arg' = None
          /\ out' = FSPath_non_absolute(p)
          /\ ret' = FALSE
          /\ err' = ""
    /\ calls' = calls + 1
    /\ UNCHANGED <<registry, lookups, cwd>>

\* p == other
Eq ==
    /\ calls < MaxCalls
    /\ \E p \in Held, other \in Operands :
          /\ op' = "eq"
          /\ path' = NoStr
          /\ self' = p
          /\ arg' = other
          /\ out' = None
          /\ ret' = FSPath_eq(p, other)
          /\ err' = ""
    /\ calls' = calls + 1
    /\ UNCHANGED <<registry, lookups, cwd>>

\* p != other
Ne ==
    /\ calls < MaxCalls
    /\ \E p \in Held, other \in Operands :
          /\ op' = "ne"
          /\ path' = NoStr
          /\ self' = p
          /\ arg' = other
          /\ out' = None
          /\ ret' = FSPath_ne(p, other)
          /\ err' = ""
    /\ calls' = calls + 1
    /\ UNCHANGED <<registry, lookups, cwd>>

\* str(p)
Str ==
    /\ calls < MaxCalls
    /\ \E p \in Held :
          /\ op' = "str"
          /\ path' = NoStr
          /\ self' = p
          /\ arg' = None
          /\ out' = None
          /\ ret' = FSPath_str(p)
          /\ err' = ""
    /\ calls' = calls + 1
    /\ UNCHANGED <<registry, lookups, cwd>>

\* p.split_system_path(syspath)
SplitSystemPath ==
    /\ calls < MaxCalls
    /\ \E p \in Held, syspath \in Strings :
          LET r == FSPath_split_system_path(p, syspath)
          IN  /\ op' = "split_system_path"
              /\ path' = syspath
              /\ self' = p
              /\ arg' = None
              /\ out' = None
              /\ ret' = r.ret
              /\ err' = r.err
    /\ calls' = calls + 1
    /\ UNCHANGED <<registry, lookups, cwd>>

Next ==
    \/ New \/ Relative \/ Absolute \/ NonAbsolute \/ Eq \/ Ne \/ Str
    \/ SplitSystemPath

Spec == Init /\ [][Next]_vars

----------------------------------------------------------------------------
(* The calls on a TarFileName.  The module is loaded, a file name is       *)
(* chosen, TarFileName(path) is called and then the methods of the object, *)
(* which is out after every call and self before it.                       *)

\* a file name has at most this many extensions
MaxExts == 2

\* the extensions a file name is made of: registered ones and one that is not
ExtTokens ==
    {s_tar, <<"g", "z">>, <<"t", "g", "z">>, <<"b", "z", "2">>,
     <<"l", "z", "o">>, <<"x", "z">>, <<"e">>}

\* the strings made of exactly k extensions
RECURSIVE ExtSeqs(_)
ExtSeqs(k) ==
    IF k = 0 THEN {<<>>}
    ELSE {es \o <<".">> \o t : es \in ExtSeqs(k - 1), t \in ExtTokens}

\* the file names of the documentation and of the tests, and names whose
\* dots are not all extensions
TarExamples ==
    {<<"a", "r", "c", "h", "i", "v", "e">>,
     <<"a", "r", "c", "h", "i", "v", "e", ".", "t", "a", "r">>,
     <<"a", "r", "c", "h", "i", "v", "e", ".", "t", "a", "r", ".", "g", "z">>,
     <<"a", "r", "c", "h", "i", "v", "e", ".", "t", "g", "z">>,
     <<"a", "r", "c", "h", "i", "v", "e", ".", "g", "z">>,
     <<"a", "r", "c", "h", "i", "v", "e", ".", "t", "a", "r", ".", "Z">>,
     <<"a", "r", "c", "h", "i", "v", "e", ".", "t", "a", "Z">>,
     <<"a", "r", "c", "h", "i", "v", "e", ".", "t", "l", "z">>,
     <<"b", "a", "s", "e", ".", "e", "x", "t", "1", ".", "e", "x", "t", "2">>,
     <<"b", "a", "s", "e", ".", "e", "x", "t", ".", "g", "z">>,
     <<"b", "a", "s", "e", ".", "e", "x", "t", ".", "g", "z", ".", "t", "a", "r">>,
     <<"/", "f", "o", "o", "/", "b", "a", "r", "/", "b", "a", "s", "e", "n", "a", "m", "e", ".", "e", "x", "t", ".", "g", "z", ".", "t", "a", "r">>,
     <<"x", ".", "t", "g", "z", ".", "g", "z">>,
     <<".", "g", "z">>,
     <<"d", ".", "g", "z", "/", "x">>}

\* the file names a caller passes
FileNames ==
    {d \o <<"x">> \o es :
        d \in {<<>>, <<"d", "/">>},
        es \in UNION {ExtSeqs(k) : k \in 0..MaxExts}} \cup TarExamples

\* what a caller assigns to compression: None, a name, or a Compression
Compressions(reg) == {reg.compressions[n] : n \in DOMAIN reg.compressions}
SetArgs(reg) ==
    {None} \cup Compressions(reg)
           \cup {PyStr(n) : n \in {<<"g", "z">>, <<"b", "z", "2">>,
                                  <<"l", "z", "o">>, <<"x", "z">>, <<"e">>}}

InitTar ==
    /\ op = "init"
    /\ path \in FileNames
    /\ self = None
    /\ arg = None
    /\ out = None
    /\ ret = FALSE
    /\ err = ""
    /\ calls = 0
    /\ registry \in {LoadedPy2, LoadedPy3}
    /\ lookups = <<>>
    /\ cwd = root

\* TarFileName(path)
TarNew ==
    /\ op = "init"
    /\ calls < MaxCalls
    /\ LET r == TarFileName_init(registry, path)
       IN  /\ op' = "TarFileName"
           /\ out' = r.obj
           /\ lookups' = r.looked
           /\ err' = r.err
    /\ calls' = calls + 1
    /\ UNCHANGED <<path, self, arg, ret, registry, cwd>>

\* t.compression = compression
TarSet ==
    /\ out # None
    /\ calls < MaxCalls
    /\ \E compression \in SetArgs(registry) :
          LET r == TarFileName_set_compression(registry, out, compression)
          IN  /\ op' = "set_compression"
              /\ self' = out
              /\ arg' = compression
              /\ out' = r.obj
              /\ lookups' = r.looked
              /\ err' = r.err
    /\ calls' = calls + 1
    /\ UNCHANGED <<path, ret, registry, cwd>>

\* t.compression
TarGet ==
    /\ out # None
    /\ calls < MaxCalls
    /\ op' = "compression"
    /\ self' = out
    /\ arg' = None
    /\ ret' = TarFileName_compression(out)
    /\ lookups' = <<>>
    /\ err' = ""
    /\ calls' = calls + 1
    /\ UNCHANGED <<path, out, registry, cwd>>

\* str(t)
TarStr ==
    /\ out # None
    /\ calls < MaxCalls
    /\ op' = "str"
    /\ self' = out
    /\ arg' = None
    /\ ret' = TarFileName_str(out)
    /\ lookups' = <<>>
    /\ err' = ""
    /\ calls' = calls + 1
    /\ UNCHANGED <<path, out, registry, cwd>>

NextTar == TarNew \/ TarSet \/ TarGet \/ TarStr

SpecTar == InitTar /\ [][NextTar]_vars

----------------------------------------------------------------------------
(* The declarations of compressions.  The class body has run, or the whole *)
(* module has, and Compression(...) is called; arg is the arguments of the *)
(* call and out the object returned.                                       *)

\* a declaration has at most this many extensions
MaxRegExts == 2

\* a behaviour makes at most this many declarations
MaxRegs == 2

\* the names and the extensions of the declarations: a name that the module
\* declares and one that it does not; "tar" and two extensions that the
\* module does not declare
RegNames == {<<"g", "z">>, <<"p">>}
RegExts == {s_tar, <<"p">>, <<"q">>}

\* the tuples of exactly k extensions
RECURSIVE RegExtSeqs(_)
RegExtSeqs(k) ==
    IF k = 0 THEN {<<>>}
    ELSE {Append(es, e) : es \in RegExtSeqs(k - 1), e \in RegExts}

InitReg ==
    /\ op = "init"
    /\ path = NoStr
    /\ self = None
    /\ arg = None
    /\ out = None
    /\ ret = FALSE
    /\ err = ""
    /\ calls = 0
    /\ registry \in {Compression_registry, LoadedPy3}
    /\ lookups = <<>>
    /\ cwd = root

\* Compression(name, supported, *extensions)
Register ==
    /\ calls < MaxRegs
    /\ \E name \in RegNames, supported \in BOOLEAN,
          extensions \in UNION {RegExtSeqs(k) : k \in 0..MaxRegExts} :
          LET r == Compression_new(registry, name, supported, extensions)
          IN  /\ op' = "Compression"
              /\ arg' = [name |-> name, supported |-> supported,
                         extensions |-> extensions]
              /\ out' = r.obj
              /\ err' = r.err
              /\ registry' = r.reg
    /\ calls' = calls + 1
    /\ UNCHANGED <<path, self, ret, lookups, cwd>>

NextReg == Register

SpecReg == InitReg /\ [][NextReg]_vars

----------------------------------------------------------------------------
(* The reads of cached properties.  out is the TestClass object after the  *)
(* last call and self is the object before it.                             *)

\* a behaviour makes at most this many reads and assignments
MaxAccesses == 5

\* the values assigned to the control attributes
AttrValues == {1, 2}

InitCache ==
    /\ op = "init"
    /\ path = NoStr
    /\ self = None
    /\ arg = None
    /\ out = TestClass_init
    /\ ret = FALSE
    /\ err = ""
    /\ calls = 0
    /\ registry = Compression_registry
    /\ lookups = <<>>
    /\ cwd = root

\* obj.prop
Read ==
    /\ calls < MaxAccesses
    /\ \E cp \in TestClass_props :
          LET r == CacheProperty_call(cp, out)
          IN  /\ op' = "read"
              /\ self' = out
              /\ arg' = cp
              /\ out' = r.obj
              /\ ret' = r.ret
              /\ err' = r.err
    /\ calls' = calls + 1
    /\ UNCHANGED <<path, registry, lookups, cwd>>

\* obj.a = v and obj.b = v
SetAttr ==
    /\ calls < MaxAccesses
    /\ \E attr \in {"a", "b"}, v \in AttrValues :
          /\ op' = "setattr"
          /\ self' = out
          /\ arg' = <<attr, v>>
          /\ out' = (attr :> v) @@ out
          /\ ret' = FALSE
          /\ err' = ""
    /\ calls' = calls + 1
    /\ UNCHANGED <<path, registry, lookups, cwd>>

\* obj.c = control, and control.a = va; control.b = vb
SetBase ==
    /\ calls < MaxAccesses
    /\ \E va \in AttrValues, vb \in AttrValues :
          /\ op' = "setbase"
          /\ self' = out
          /\ arg' = <<va, vb>>
          /\ out' = ("c" :> [a |-> va, b |-> vb]) @@ out
          /\ ret' = FALSE
          /\ err' = ""
    /\ calls' = calls + 1
    /\ UNCHANGED <<path, registry, lookups, cwd>>

NextCache == Read \/ SetAttr \/ SetBase

SpecCache == InitCache /\ [][NextCache]_vars

----------------------------------------------------------------------------
(* workdir (fstree/utils.py).  The directories of the file system are a    *)
(* fixed set; os.chdir resolves its argument against the working directory *)
(* and raises OSError when the result is no directory.  Under SpecWork op  *)
(* is the position of the program in the with statement ("workdir" inside  *)
(* the block, "raise" when the block has raised and the generator is about *)
(* to run its finally clause, "exit" after the statement), path is the     *)
(* argument of workdir, self the frame of the generator (its local cwd),   *)
(* out the value the with statement binds and err the exception that left  *)
(* the statement.                                                          *)

\* a program uses workdir at most this many times
MaxUses == 3

Dirs == {root, <<"/", "a">>, <<"/", "a", "/", "b">>, <<"/", "c">>}

WorkPaths ==
    {<<"/", "a">>, <<"a">>, <<"b">>, <<"/", "a", "/", "b">>, pardir, curdir,
     <<"/", "x">>}

\* os.chdir(p) in the directory cur: the new working directory, or OSError
os_chdir(cur, p) ==
    LET target == os_path_normpath(os_path_join(cur, <<p>>))
    IN  IF target \in Dirs THEN [cwd |-> target, err |-> ""]
        ELSE [cwd |-> cur, err |-> "OSError"]

\* the finally clause of workdir is skipped when the block raised
workdir_exit_NoFinally(frame, cur, exc) ==
    IF exc = "" THEN os_chdir(cur, frame.cwd).cwd ELSE cur

\* the finally clause of workdir: os.chdir(cwd)
workdir_exit(frame, cur, exc) ==
    os_chdir(cur, frame.cwd).cwd

InitWork ==
    /\ op = "init"
    /\ path = NoStr
    /\ self = None
    /\ arg = None
    /\ out = None
    /\ ret = FALSE
    /\ err = ""
    /\ calls = 0
    /\ registry = Compression_registry
    /\ lookups = <<>>
    /\ cwd = root

\* with workdir(p) as out: up to the yield
Enter ==
    /\ op \in {"init", "exit"}
    /\ calls < MaxUses
    /\ \E p \in WorkPaths :
          LET frame == [cwd |-> cwd]
              r == os_chdir(cwd, p)
          IN  /\ path' = p
              /\ self' = frame
              /\ cwd' = r.cwd
              /\ err' = r.err
              /\ IF r.err = ""
                 THEN op' = "workdir" /\ out' = frame.cwd
                 ELSE op' = "exit" /\ out' = None
    /\ calls' = calls + 1
    /\ UNCHANGED <<arg, ret, registry, lookups>>

\* the program changes directory, inside the block or outside it
Chdir ==
    /\ op \in {"workdir", "exit"}
    /\ \E d \in Dirs :
          /\ d # cwd
          /\ cwd' = os_chdir(cwd, d).cwd
    /\ UNCHANGED <<op, path, self, arg, out, ret, err, calls, registry, lookups>>

\* the block raises
Raise ==
    /\ op = "workdir"
    /\ op' = "raise"
    /\ err' = "TestException"
    /\ UNCHANGED <<path, self, arg, out, ret, calls, registry, lookups, cwd>>

\* the block ends, or the exception reaches the generator: the finally
\* clause runs and the exception, if any, leaves the with statement
Exit ==
    /\ op \in {"workdir", "raise"}
    /\ op' = "exit"
    /\ cwd' = workdir_exit(self, cwd, err)
    /\ UNCHANGED <<path, self, arg, out, ret, err, calls, registry, lookups>>

NextWork == Enter \/ Chdir \/ Raise \/ Exit

SpecWork == InitWork /\ [][NextWork]_vars

----------------------------------------------------------------------------
(* RelPath (fstree/utils.py).  Under SpecRel path is the path given to     *)
(* RelPath, arg its start and root, out the object (None when the          *)
(* constructor raised), lookups the paths it handed to abspath, in order,  *)
(* and ret the string of the object.                                       *)

\* os.path.isabs
os_path_isabs(p) == startswith(p, sep)

\* os.path.abspath in the working directory pcwd
os_path_abspath(p, pcwd) ==
    os_path_normpath(IF os_path_isabs(p) THEN p ELSE os_path_join(pcwd, <<p>>))

\* deroot(path, root)
deroot(p, droot) ==
    IF droot = root THEN [ret |-> p, err |-> ""]
    ELSE IF \/ Len(p) < Len(droot)
            \/ SliceTo(p, Len(droot)) # droot
            \/ (Len(p) > Len(droot) /\ p[Len(droot) + 1] # "/")
    THEN [ret |-> NoStr, err |-> "ValueError"]
    ELSE LET rest == SliceFrom(p, Len(droot))
         IN  [ret |-> IF rest = <<>> THEN root ELSE rest, err |-> ""]

\* abspath(path, cwd, root) in the working directory pcwd; NoStr is the
\* cwd=None of the signature
abspath(p, acwd, aroot, pcwd) ==
    LET root1 == os_path_abspath(aroot, pcwd)
    IN  IF os_path_isabs(p) THEN [ret |-> os_path_normpath(p), err |-> ""]
        ELSE LET d == IF acwd = NoStr THEN deroot(pcwd, root1)
                      ELSE [ret |-> acwd, err |-> ""]
             IN  IF d.err # "" THEN d
                 ELSE [ret |-> os_path_normpath(os_path_join(d.ret, <<p>>)),
                       err |-> ""]

\* the components of a path that are not empty
RECURSIVE NonEmpty(_)
NonEmpty(comps) ==
    IF comps = <<>> THEN <<>>
    ELSE (IF Head(comps) = <<>> THEN <<>> ELSE <<Head(comps)>>)
         \o NonEmpty(Tail(comps))

\* RelPath.__init__ from the abspath calls on, counting every component of
\* start as a parent
RelPath_resolve_AllParents(p, start, rroot, pcwd) ==
    LET ap == abspath(p, rroot, root, pcwd)
        as == abspath(start, rroot, root, pcwd)
    IN  IF ap.err # ""
        THEN [obj |-> None, resolved |-> <<p>>, err |-> ap.err]
        ELSE IF as.err # ""
        THEN [obj |-> None, resolved |-> <<p, start>>, err |-> as.err]
        ELSE LET path_list == NonEmpty(split(ap.ret, sep))
                 start_list == NonEmpty(split(as.ret, sep))
                 i == Len(commonprefix(path_list, start_list))
                 remainder == SliceFrom(path_list, i)
             IN  [obj |-> [path_list |-> path_list,
                           parents |-> Len(start_list),
                           remainder |-> IF remainder # <<>>
                                         THEN os_path_join(remainder[1], Tail(remainder))
                                         ELSE <<>>],
                  resolved |-> <<p, start>>,
                  err |-> ""]

\* RelPath.__init__ from the abspath calls on: root is handed to abspath as
\* its second positional parameter, which is cwd
RelPath_resolve(p, start, rroot, pcwd) ==
    LET ap == abspath(p, rroot, root, pcwd)
        as == abspath(start, rroot, root, pcwd)
    IN  IF ap.err # ""
        THEN [obj |-> None, resolved |-> <<p>>, err |-> ap.err]
        ELSE IF as.err # ""
        THEN [obj |-> None, resolved |-> <<p, start>>, err |-> as.err]
        ELSE LET path_list == NonEmpty(split(ap.ret, sep))
                 start_list == NonEmpty(split(as.ret, sep))
                 i == Len(commonprefix(path_list, start_list))
                 remainder == SliceFrom(path_list, i)
             IN  [obj |-> [path_list |-> path_list,
                           parents |-> Len(start_list) - i,
                           remainder |-> IF remainder # <<>>
                                         THEN os_path_join(remainder[1], Tail(remainder))
                                         ELSE <<>>],
                  resolved |-> <<p, start>>,
                  err |-> ""]

\* RelPath.__init__ without the test of an empty path
RelPath_init_NoEmptyCheck(p, start, rroot, pcwd) ==
    RelPath_resolve(p, start, rroot, pcwd)

\* RelPath.__init__
RelPath_init(p, start, rroot, pcwd) ==
    IF p = <<>>
    THEN [obj |-> None, resolved |-> <<>>, err |-> "no path specified"]
    ELSE RelPath_resolve(p, start, rroot, pcwd)

\* RelPath.__str__
RelPath_str(this) ==
    IF this.parents = 0 /\ this.remainder = <<>> THEN curdir
    ELSE LET elems == [j \in 1..this.parents |-> pardir]
                      \o (IF this.remainder # <<>> THEN <<this.remainder>> ELSE <<>>)
         IN  os_path_join(elems[1], Tail(elems))

\* the roots a caller gives: the default and a directory
Roots == {root, <<"/", "a">>}

\* the caller holds a path, a start and a root
InitRel ==
    /\ op = "init"
    /\ path \in Strings
    /\ self = None
    /\ arg \in {[start |-> start, root |-> rroot] : start \in Strings, rroot \in Roots}
    /\ out = None
    /\ ret = NoStr
    /\ err = ""
    /\ calls = 0
    /\ registry = Compression_registry
    /\ lookups = <<>>
    /\ cwd = root

\* RelPath(path, start, root)
RelPathNew ==
    /\ op = "init"
    /\ LET r == RelPath_init(path, arg.start, arg.root, cwd)
       IN  /\ op' = "RelPath"
           /\ out' = r.obj
           /\ lookups' = r.resolved
           /\ err' = r.err
    /\ UNCHANGED <<path, self, arg, ret, calls, registry, cwd>>

\* str(out)
RelPathStr ==
    /\ op = "RelPath"
    /\ err = ""
    /\ op' = "str"
    /\ ret' = RelPath_str(out)
    /\ UNCHANGED <<path, self, arg, out, err, calls, registry, lookups, cwd>>

NextRel == RelPathNew \/ RelPathStr

SpecRel == InitRel /\ [][NextRel]_vars

----------------------------------------------------------------------------
(* Properties.                                                             *)

\* exactly the first parents items are the parent marker, and no other item
\* is the parent or the current-directory marker
WellFormed(v) ==
    /\ v.parents <= Len(v.elems)
    /\ \A i \in 1..Len(v.elems) :
          IF i <= v.parents THEN v.elems[i] = pardir
          ELSE v.elems[i] # pardir /\ v.elems[i] # curdir

\* C1: every FSPath made by parsing a string, with or without a reference,
\* or by relative, absolute and non_absolute applied to such values, has the
\* parent marker in exactly its first parents items and no other parent or
\* current-directory marker.
C1_SegmentsInvariant == \A v \in Held : WellFormed(v)

\* C2: every FSPath that is absolute has parents = 0.
C2_AbsoluteNoParents == \A v \in Held : v.absolute => v.parents = 0

\* absolute() made an absolute path out of a relative one that has parents
C2_Witness ==
    /\ op = "absolute"
    /\ err = ""
    /\ ~self.absolute
    /\ self.parents > 0
    /\ out.absolute

\* The reference normalizer of a string, by rewriting: the components are
\* the runs of characters between separators; the empty ones and "." go; a
\* name followed by ".." cancels with it, until no such pair is left; what
\* is left is some ".." and then names, and the ".." are dropped when the
\* string starts with the root marker and counted when it does not.
RefComponents(s) ==
    LET cuts == {0} \cup {i \in 1..Len(s) : s[i] = "/"} \cup {Len(s) + 1}
        nth[k \in 1..Cardinality(cuts)] ==
            IF k = 1 THEN 0
            ELSE CHOOSE c \in cuts : c > nth[k - 1] /\ \A d \in cuts : d > nth[k - 1] => c <= d
    IN  [k \in 1..(Cardinality(cuts) - 1) |-> SubSeq(s, nth[k] + 1, nth[k + 1] - 1)]

RefKeep(comps) == SelectSeq(comps, LAMBDA c : c # <<>> /\ c # <<".">>)

RECURSIVE RefCancel(_)
RefCancel(comps) ==
    LET pairs == {i \in 1..(Len(comps) - 1) :
                     comps[i] # <<".", ".">> /\ comps[i + 1] = <<".", ".">>}
    IN  IF pairs = {} THEN comps
        ELSE LET i == CHOOSE j \in pairs : TRUE
             IN  RefCancel(SubSeq(comps, 1, i - 1) \o SubSeq(comps, i + 2, Len(comps)))

RefNormalize(s) ==
    LET rooted == s # <<>> /\ s[1] = "/"
        left == RefCancel(RefKeep(RefComponents(s)))
        ups == Cardinality({i \in 1..Len(left) : left[i] = <<".", ".">>})
    IN  IF rooted
        THEN [elems |-> SubSeq(left, ups + 1, Len(left)), absolute |-> TRUE, parents |-> 0]
        ELSE [elems |-> left, absolute |-> FALSE, parents |-> ups]

\* C3: FSPath(s) with no reference is the reference normalizer of s; so
\* "/a/b/../c" gives (a, c), absolute, parents 0 and "../../x" gives
\* (.., .., x), relative, parents 2.
C3_ParseIsNormalizer ==
    (op = "new" /\ arg = None) =>
        /\ out = RefNormalize(path)
        /\ path = <<"/", "a", "/", "b", "/", ".", ".", "/", "c">> =>
              out = [elems |-> << <<"a">>, <<"c">> >>, absolute |-> TRUE, parents |-> 0]
        /\ path = <<".", ".", "/", ".", ".", "/", "x">> =>
              out = [elems |-> << <<".", ".">>, <<".", ".">>, <<"x">> >>,
                     absolute |-> FALSE, parents |-> 2]

\* "../../x" was parsed with no reference and kept its two parent markers
C3_Witness ==
    /\ op = "new"
    /\ arg = None
    /\ path = <<".", ".", "/", ".", ".", "/", "x">>
    /\ out.parents = 2
    /\ Len(out.elems) = 3

\* C4: for absolute a and b, a.relative(b).absolute(b) is a again.
C4_RelativeThenAbsolute ==
    (op = "relative" /\ err = "" /\ self.absolute /\ arg.absolute) =>
        LET back == FSPath_absolute(out, arg)
        IN  /\ back.err = ""
            /\ back.out = self
            /\ FSPath_eq(back.out, self)

\* relative() of two parsed absolute paths that share a first segment and
\* then part: the result goes up and then down
C4_Witness ==
    /\ op = "relative"
    /\ err = ""
    /\ self \in Parsed /\ self.absolute
    /\ arg \in Parsed /\ arg.absolute
    /\ out.parents > 0
    /\ Len(out.elems) > out.parents
    /\ Len(self.elems) > Len(out.elems) - out.parents

\* the operands of C5: a parsed relative r and a parsed absolute a, r with no
\* more parents than a has segments
C5_Case ==
    /\ op = "absolute"
    /\ err = ""
    /\ self \in Parsed /\ ~self.absolute
    /\ arg \in Parsed /\ arg.absolute
    /\ self.parents <= Len(arg.elems)

\* r goes up from a and then down again into the segment of a it left last
C5_Reenters ==
    /\ self.parents > 0
    /\ Len(self.elems) > self.parents
    /\ self.elems[self.parents + 1] = arg.elems[Len(arg.elems) - self.parents + 1]

\* C5 as stated: for absolute a and relative r with r.parents at most the
\* depth of a, r.absolute(a).relative(a) is r again.
C5_Original ==
    C5_Case => FSPath_relative(out, arg) = [out |-> self, err |-> ""]

\* C5 as amended: it is r again unless r, after going up, goes down into the
\* very segment of a that its last parent marker left.
C5_AbsoluteThenRelative ==
    (C5_Case /\ ~C5_Reenters) => FSPath_relative(out, arg) = [out |-> self, err |-> ""]

\* absolute() of a parsed relative path that goes up and then down
C5_Witness ==
    /\ C5_Case
    /\ ~C5_Reenters
    /\ self.parents > 0
    /\ Len(self.elems) > self.parents

\* the length of the longest common leading part of two tuples
RefCommonLen(x, y) ==
    CHOOSE k \in 0..Len(x) :
        /\ k <= Len(y)
        /\ \A j \in 1..k : x[j] = y[j]
        /\ (k < Len(x) /\ k < Len(y)) => x[k + 1] # y[k + 1]

\* C6: relative() raises exactly when one operand is absolute and the other
\* is not; otherwise, with k the length of the common leading part, the
\* result is relative, has parents = len(start) - k and is that many parent
\* markers and then target[k:]; "/a/b/c" from "/a/x" is (.., b, c), parents 1.
C6_RelativeIsReference ==
    op = "relative" =>
        /\ err # "" <=> self.absolute # arg.absolute
        /\ err # "" => out = None
        /\ err = "" =>
              LET k == RefCommonLen(self.elems, arg.elems)
                  ups == Len(arg.elems) - k
              IN  /\ ~out.absolute
                  /\ out.parents = ups
                  /\ Len(out.elems) = ups + Len(self.elems) - k
                  /\ \A j \in 1..Len(out.elems) :
                        out.elems[j] = IF j <= ups THEN <<".", ".">>
                                       ELSE self.elems[k + j - ups]
        /\ (/\ self = [elems |-> << <<"a">>, <<"b">>, <<"c">> >>,
                       absolute |-> TRUE, parents |-> 0]
            /\ arg = [elems |-> << <<"a">>, <<"x">> >>, absolute |-> TRUE, parents |-> 0])
           => out = [elems |-> << <<".", ".">>, <<"b">>, <<"c">> >>,
                     absolute |-> FALSE, parents |-> 1]

\* "/a/b/c" relative to "/a/x"
C6_Witness ==
    /\ op = "relative"
    /\ err = ""
    /\ self.absolute /\ self.elems = << <<"a">>, <<"b">>, <<"c">> >>
    /\ arg.absolute /\ arg.elems = << <<"a">>, <<"x">> >>
    /\ out.parents = 1

\* C7: absolute() returns an absolute path as it is, whatever the reference;
\* raises for a relative path and a reference that is not absolute; and for
\* a relative path p and an absolute reference gives an absolute path with
\* parents 0 whose items are those of the reference without its last
\* p.parents ones (without all of them when there are fewer) and then
\* p[p.parents:].
C7_AbsoluteIsReference ==
    op = "absolute" =>
        /\ self.absolute => (err = "" /\ out = self)
        /\ (~self.absolute /\ ~arg.absolute) => (err = "ValueError" /\ out = None)
        /\ (~self.absolute /\ arg.absolute) =>
              LET kept == IF Len(arg.elems) > self.parents
                          THEN Len(arg.elems) - self.parents ELSE 0
                  tail == Len(self.elems) - self.parents
              IN  /\ err = ""
                  /\ out.absolute
                  /\ out.parents = 0
                  /\ Len(out.elems) = kept + tail
                  /\ \A j \in 1..(kept + tail) :
                        out.elems[j] = IF j <= kept THEN arg.elems[j]
                                       ELSE self.elems[self.parents + j - kept]

\* absolute() of a relative path with more parents than the reference has
\* segments, and with something after them
C7_Witness ==
    /\ op = "absolute"
    /\ err = ""
    /\ ~self.absolute
    /\ arg.absolute
    /\ Len(arg.elems) > 0
    /\ self.parents > Len(arg.elems)
    /\ Len(self.elems) > self.parents

\* C8 as stated: FSPath(s, ...) is absolute whenever s starts with the root
\* marker or no reference is given.
C8_Original ==
    (op = "new" /\ ((path # <<>> /\ path[1] = "/") \/ arg = None)) => out.absolute

\* C8 as amended: FSPath(s, ...) is absolute exactly when s starts with the
\* root marker or a reference is given; a string that does not start with
\* the root marker, parsed with no reference, gives a relative path.
C8_AbsoluteFlag ==
    op = "new" => (out.absolute <=> ((path # <<>> /\ path[1] = "/") \/ arg # None))

\* a string that does not start with the root marker, parsed with no
\* reference
C8_Witness ==
    /\ op = "new"
    /\ arg = None
    /\ path # <<>>
    /\ path[1] # "/"
    /\ Len(out.elems) > 0
    /\ ~out.absolute

\* C9: p == q exactly when the absolute flags match and the tuples are equal
\* (parents is not compared); p != q is its negation; and equal paths have
\* equal hashes.
C9_Equality ==
    /\ op = "eq" =>
          /\ ret <=> (self.absolute = arg.absolute /\ self.elems = arg.elems)
          /\ ret <=> ~FSPath_ne(self, arg)
          /\ ret => FSPath_hash(self) = FSPath_hash(arg)
    /\ op = "ne" =>
          /\ ret <=> ~(self.absolute = arg.absolute /\ self.elems = arg.elems)
          /\ ret <=> ~FSPath_eq(self, arg)

\* two paths found equal whose parents differ
C9_Witness ==
    /\ op = "eq"
    /\ ret
    /\ self.parents # arg.parents

\* C10: any two paths that compare equal have the same parents.
C10_ConsistentParents ==
    \A v \in Held, w \in Held : FSPath_eq(v, w) => v.parents = w.parents

\* The reference rendering, built from the left one segment at a time: the
\* root marker or nothing, then every segment, with a separator before each
\* one but the first; and "." when that leaves a relative path with nothing.
RefRender(v) ==
    LET upto[i \in 0..Len(v.elems)] ==
            IF i = 0 THEN (IF v.absolute THEN <<"/">> ELSE <<>>)
            ELSE upto[i - 1] \o (IF i > 1 THEN <<"/">> ELSE <<>>) \o v.elems[i]
        all == upto[Len(v.elems)]
    IN  IF all = <<>> THEN <<".">> ELSE all

\* C11: str(p) is the root marker followed by the segments joined by the
\* separator when p is absolute, the segments joined by the separator (each
\* parent segment as "..") when p is relative and has segments, and exactly
\* "." when p is relative and has no segment.
C11_Rendering ==
    op = "str" =>
        /\ ret = RefRender(self)
        /\ (~self.absolute /\ self.elems = <<>> /\ self.parents = 0) => ret = <<".">>
        /\ (~self.absolute /\ self.parents > 0 /\ WellFormed(self)) =>
               SubSeq(ret, 1, 2) = <<".", ".">>
        /\ self.absolute => ret[1] = "/"

\* the empty relative path was rendered
C11_Witness ==
    /\ op = "str"
    /\ ~self.absolute
    /\ self.elems = <<>>
    /\ ret = <<".">>

\* C12: split_system_path raises exactly when the path is absolute, or is
\* relative with parents and has segments beyond them; it never raises for a
\* relative path with no parents, nor for one whose segments are all "..".
C12_SplitRaises ==
    op = "split_system_path" =>
        /\ err # "" <=>
               \/ self.absolute
               \/ (~self.absolute /\ self.parents > 0
                     /\ Len(self.elems) > self.parents)
        /\ (~self.absolute /\ self.parents = 0) => err = ""
        /\ (~self.absolute /\ \A i \in 1..Len(self.elems) : self.elems[i] = pardir)
              => err = ""

----------------------------------------------------------------------------
(* Properties of TarFileName.                                              *)

\* The registry as the documentation lists it: the schemes, whose canonical
\* extension is their name, and the aliases that stand for the archive
\* suffix and a scheme together.
RefSchemes ==
    {<<"g", "z">>, <<"Z">>, <<"b", "z", "2">>,
     <<"l", "z">>, <<"l", "z", "m", "a">>, <<"l", "z", "o">>, <<"x", "z">>}

RefAlias ==
    (<<"t", "g", "z">> :> <<"g", "z">>) @@ (<<"t", "a", "z">> :> <<"g", "z">>)
    @@ (<<"t", "a", "Z">> :> <<"Z">>)
    @@ (<<"t", "b", "z">> :> <<"b", "z", "2">>)
    @@ (<<"t", "b", "z", "2">> :> <<"b", "z", "2">>)
    @@ (<<"t", "z", "2">> :> <<"b", "z", "2">>)
    @@ (<<"t", "l", "z">> :> <<"l", "z", "m", "a">>)
    @@ (<<"t", "x", "z">> :> <<"x", "z">>)

\* the scheme an extension carries, <<>> when it carries none
RefSchemeOf(e) ==
    IF e \in RefSchemes THEN e
    ELSE IF e \in DOMAIN RefAlias THEN RefAlias[e]
    ELSE <<>>

RefArchive(e) == e = <<"t", "a", "r">> \/ e \in DOMAIN RefAlias

RefKnown(e) == RefArchive(e) \/ e \in RefSchemes

\* gz and bz2 are supported, and xz is under Python 3
RefSupported(scheme, py3) ==
    scheme \in {<<"g", "z">>, <<"b", "z", "2">>} \/ (py3 /\ scheme = <<"x", "z">>)

\* The reference parse of a file name.  The name after the last separator
\* is cut at its dots; the j-th part from the right is an extension when
\* something other than dots is to its left.  Extensions are consumed from
\* the right as long as they are registered, up to and including the first
\* one that carries the archive flag.
RefParse(f, py3) ==
    LET cut == RFind(f, "/")
        parts == split(SliceFrom(f, cut), <<".">>)
        n == Len(parts)
        ExtAt(j) == parts[n - j + 1]
        IsExt(j) == j <= n - 1 /\ \E i \in 1..(n - j) : parts[i] # <<>>
        Consumable(j) ==
            \A k \in 1..j : /\ IsExt(k)
                            /\ RefKnown(ExtAt(k))
                            /\ k < j => ~RefArchive(ExtAt(k))
        consumed == CHOOSE j \in 0..n :
                        Consumable(j) /\ \A k \in (j + 1)..n : ~Consumable(k)
        gotArchive == consumed > 0 /\ RefArchive(ExtAt(consumed))
        carriers == {j \in 1..consumed : RefSchemeOf(ExtAt(j)) # <<>>}
        scheme == IF carriers = {} THEN <<>>
                  ELSE RefSchemeOf(ExtAt(CHOOSE j \in carriers : TRUE))
    IN  [ok |-> /\ Cardinality(carriers) <= 1
                /\ carriers # {} => gotArchive /\ RefSupported(scheme, py3),
         base |-> SliceTo(f, cut) \o join(SubSeq(parts, 1, n - consumed), <<".">>),
         exts |-> (IF gotArchive THEN <<>> ELSE <<<<".">> \o <<"t", "a", "r">>>>)
                  \o [i \in 1..consumed |-> <<".">> \o parts[n - consumed + i]],
         scheme |-> scheme,
         archive |-> gotArchive,
         carried |-> SelectSeq([j \in 1..consumed |-> RefSchemeOf(ExtAt(j))],
                               LAMBDA c : c # <<>>),
         looked |-> consumed + (IF ~gotArchive /\ IsExt(consumed + 1) THEN 1 ELSE 0)]

\* the examples of parsing
C13_Examples ==
    /\ path = <<"b", "a", "s", "e", ".", "e", "x", "t", ".", "g", "z", ".", "t", "a", "r">> =>
          /\ err = ""
          /\ out.basename = <<"b", "a", "s", "e", ".", "e", "x", "t", ".", "g", "z">>
          /\ out.extensions = <<<<".", "t", "a", "r">>>>
          /\ TarFileName_compression(out) = None
          /\ Len(lookups) = 1
    /\ path = <<"a", "r", "c", "h", "i", "v", "e", ".", "t", "a", "r", ".", "g", "z">> =>
          /\ err = ""
          /\ out.basename = <<"a", "r", "c", "h", "i", "v", "e">>
          /\ out.extensions = <<<<".", "t", "a", "r">>, <<".", "g", "z">>>>
          /\ TarFileName_compression(out) = lookup_compression(registry, <<"g", "z">>)
    /\ path = <<"a", "r", "c", "h", "i", "v", "e", ".", "t", "g", "z">> =>
          /\ err = ""
          /\ out.basename = <<"a", "r", "c", "h", "i", "v", "e">>
          /\ out.extensions = <<<<".", "t", "g", "z">>>>
          /\ TarFileName_compression(out) = lookup_compression(registry, <<"g", "z">>)
    /\ path \in {<<"a", "r", "c", "h", "i", "v", "e">>, <<"b", "a", "s", "e", ".", "e", "x", "t", "1", ".", "e", "x", "t", "2">>} =>
          /\ err = ""
          /\ out.basename = path
          /\ out.extensions = <<<<".", "t", "a", "r">>>>
          /\ TarFileName_compression(out) = None

\* C13: TarFileName(path) succeeds exactly when the reference parse does, and
\* then basename, extensions and compression are those of the reference
\* parse: extensions are taken off from the right and looked up one at a
\* time until one is not registered or one with the archive flag was taken,
\* and what is to the left stays in basename.
C13_ParseIsReference ==
    op = "TarFileName" =>
        LET ref == RefParse(path, registry = LoadedPy3)
        IN  /\ err = "" <=> ref.ok
            /\ err = "" =>
                  /\ out.basename = ref.base
                  /\ out.extensions = ref.exts
                  /\ IF ref.scheme = <<>>
                     THEN out.compression = unset
                          /\ TarFileName_compression(out) = None
                     ELSE out.compression =
                              [name |-> ref.scheme, supported |-> TRUE,
                               extension |-> <<".">> \o ref.scheme]
                  /\ Len(lookups) = ref.looked
            /\ C13_Examples

\* a registered compression extension to the left of ".tar" was left in
\* basename, after one look at the registry
C13_Witness ==
    /\ op = "TarFileName"
    /\ path = <<"b", "a", "s", "e", ".", "e", "x", "t", ".", "g", "z", ".", "t", "a", "r">>
    /\ err = ""
    /\ out.basename = <<"b", "a", "s", "e", ".", "e", "x", "t", ".", "g", "z">>
    /\ Len(lookups) = 1

\* C14: after TarFileName(path) succeeded, and after every assignment to
\* compression that follows, successful or not, the first extension is ".tar"
\* or an alias that carries the archive flag, no later extension carries the
\* archive flag, and the first extension is ".tar" when the file name had no
\* extension with the archive flag.
C14_ArchiveSuffixFirst ==
    out # None =>
        /\ out.extensions # <<>>
        /\ \A i \in 1..Len(out.extensions) :
              RefArchive(SliceFrom(out.extensions[i], 1)) <=> i = 1
        /\ ~RefParse(path, registry = LoadedPy3).archive =>
              Head(out.extensions) = <<".", "t", "a", "r">>

\* a file name without an archive extension was parsed and the third call,
\* an assignment to compression, put an extension after the default ".tar"
C14_Witness ==
    /\ op = "set_compression"
    /\ calls = 3
    /\ err = ""
    /\ arg # None
    /\ ~RefParse(path, registry = LoadedPy3).archive
    /\ Len(out.extensions) = 2
    /\ self.extensions = <<<<".", "t", "a", "r">>>>

\* C15: TarFileName(path) raises when a second extension that carries a
\* compression is met before an extension with the archive flag: "references
\* twice" when it carries the compression of the first, "contains both" when
\* it carries another one, whether the second compression is supported or
\* not; and these errors are raised in no other case.
C15_SecondCompression ==
    op = "TarFileName" =>
        LET py3 == registry = LoadedPy3
            c == RefParse(path, py3).carried
            second == Len(c) >= 2 /\ RefSupported(c[1], py3)
        IN  /\ second =>
                  err = IF c[2] = c[1]
                        THEN "tar filename references compression twice"
                        ELSE "tar filename contains both compressions"
            /\ err \in {"tar filename references compression twice",
                         "tar filename contains both compressions"} => second
            /\ path \in {<<"x", ".", "g", "z", ".", "g", "z">>,
                          <<"x", ".", "t", "g", "z", ".", "g", "z">>} =>
                  err = "tar filename references compression twice"
            /\ path = <<"x", ".", "g", "z", ".", "b", "z", "2">> =>
                  err = "tar filename contains both compressions"

\* the second compression met was an unsupported one, and the error is that
\* the name contains two compressions
C15_Witness ==
    /\ op = "TarFileName"
    /\ path = <<"x", ".", "l", "z", "o", ".", "g", "z">>
    /\ lookups = <<<<".", "g", "z">>, <<".", "l", "z", "o">>>>
    /\ err = "tar filename contains both compressions"

\* the name of the scheme that an assignment to compression asks for
Requested(compression) ==
    IF IsCompression(compression) THEN compression.name ELSE compression.str

\* C16: TarFileName(path) raises "not supported" when the first extension
\* taken off that carries a compression carries an unsupported one; an
\* assignment of a registered but unsupported compression, by name or as a
\* Compression, raises, and raises "is unsupported" when no compression was
\* set before; and neither error is raised for a supported compression.
C16_UnsupportedRejected ==
    LET py3 == registry = LoadedPy3
    IN  /\ op = "TarFileName" =>
              LET c == RefParse(path, py3).carried
                  bad == Len(c) >= 1 /\ ~RefSupported(c[1], py3)
              IN  /\ err = "compression format not supported" <=> bad
                  /\ path \in {<<"a", "r", "c", "h", "i", "v", "e", ".", "t", "a", "r", ".", "Z">>, <<"a", "r", "c", "h", "i", "v", "e", ".", "t", "a", "Z">>, <<"a", "r", "c", "h", "i", "v", "e", ".", "t", "l", "z">>, <<"x", ".", "t", "a", "r", ".", "l", "z", "o">>}
                        => err = "compression format not supported"
        /\ op = "set_compression" =>
              LET bad == /\ arg # None
                         /\ Requested(arg) \in RefSchemes
                         /\ ~RefSupported(Requested(arg), py3)
              IN  /\ bad => err # "" /\ out = self
                  /\ bad /\ self.compression = unset =>
                        err = "compression scheme is unsupported"
                  /\ err = "compression scheme is unsupported" => bad

\* xz, which Python 2 does not support, was assigned as a Compression to a
\* name that was parsed without a compression
C16_Witness ==
    /\ op = "set_compression"
    /\ registry = LoadedPy2
    /\ self.compression = unset
    /\ IsCompression(arg)
    /\ arg.name = <<"x", "z">>
    /\ err = "compression scheme is unsupported"

\* C17: TarFileName(path) raises "no '.tar' extension" exactly when an
\* extension that carries a compression was taken off and the loop ended
\* with no extension that carries the archive flag; and a TarFileName just
\* made with a compression has an extension with the archive flag.
C17_MissingArchiveSuffix ==
    op = "TarFileName" =>
        LET py3 == registry = LoadedPy3
            ref == RefParse(path, py3)
            missing == /\ Len(ref.carried) = 1
                       /\ RefSupported(ref.carried[1], py3)
                       /\ ~ref.archive
        IN  /\ missing <=>
                  err = "tar filename contains compression but no '.tar' extension"
            /\ path \in {<<"a", "r", "c", "h", "i", "v", "e", ".", "g", "z">>, <<"b", "a", "s", "e", ".", "e", "x", "t", ".", "g", "z">>} =>
                  err = "tar filename contains compression but no '.tar' extension"
            /\ (err = "" /\ out.compression # unset) =>
                  \E i \in 1..Len(out.extensions) :
                      RefArchive(SliceFrom(out.extensions[i], 1))

\* ".gz" was taken off, ".ext" was looked up and is not registered, and the
\* constructor raised
C17_Witness ==
    /\ op = "TarFileName"
    /\ path = <<"b", "a", "s", "e", ".", "e", "x", "t", ".", "g", "z">>
    /\ lookups = <<<<".", "g", "z">>, <<".", "e", "x", "t">>>>
    /\ err = "tar filename contains compression but no '.tar' extension"

\* C18: once the compression of a TarFileName is fixed, by the constructor
\* or by an assignment that succeeded (of None too), every call leaves the
\* object as it is and every assignment raises "already set" with no look at
\* the registry; so at most one assignment succeeds.
C18_SetAtMostOnce ==
    [][(out # None /\ out.compression # unset) =>
          /\ out' = out
          /\ op' = "set_compression" =>
                /\ err' = "compression is already set"
                /\ lookups' = <<>>]_vars

\* None was assigned, and then the assignment of a name raised with no look
\* at the registry
C18_Witness ==
    /\ op = "set_compression"
    /\ self.compression = None
    /\ arg = PyStr(<<"g", "z">>)
    /\ err = "compression is already set"
    /\ lookups = <<>>
    /\ out = self

\* C19: an assignment to compression that succeeds on a TarFileName with no
\* compression set adds the canonical extension of the compression after the
\* extensions there were, leaves basename as it is and makes compression
\* read as that Compression; the assignment of None leaves the extensions
\* as they are and compression reads None; a Compression that is assigned is
\* taken as it is, with no look at the registry.
C19_SetAppends ==
    (op = "set_compression" /\ err = "") =>
        /\ self.compression = unset
        /\ out.basename = self.basename
        /\ IF arg = None
           THEN /\ out.extensions = self.extensions
                /\ TarFileName_compression(out) = None
                /\ lookups = <<>>
           ELSE /\ out.extensions = self.extensions \o <<<<".">> \o Requested(arg)>>
                /\ TarFileName_compression(out) =
                       [name |-> Requested(arg), supported |-> TRUE,
                        extension |-> <<".">> \o Requested(arg)]
                /\ IF IsCompression(arg)
                   THEN TarFileName_compression(out) = arg /\ lookups = <<>>
                   ELSE lookups = <<Requested(arg)>>
        /\ (path = <<"a", "r", "c", "h", "i", "v", "e", ".", "t", "a", "r">> /\ arg # None /\ Requested(arg) = <<"g", "z">>) =>
              TarFileName_str(out) = <<"a", "r", "c", "h", "i", "v", "e", ".", "t", "a", "r", ".", "g", "z">>

\* the Compression gz was assigned to the TarFileName of "archive.tar", which
\* then reads "archive.tar.gz"
C19_Witness ==
    /\ op = "set_compression"
    /\ err = ""
    /\ path = <<"a", "r", "c", "h", "i", "v", "e", ".", "t", "a", "r">>
    /\ IsCompression(arg)
    /\ arg.name = <<"g", "z">>
    /\ lookups = <<>>
    /\ TarFileName_str(out) = <<"a", "r", "c", "h", "i", "v", "e", ".", "t", "a", "r", ".", "g", "z">>

\* what may be assigned to a TarFileName with no compression set: None, or a
\* registered and supported compression
ValidSet(compression, py3) ==
    \/ compression = None
    \/ /\ Requested(compression) \in RefSchemes
       /\ RefSupported(Requested(compression), py3)

\* C20: an assignment to compression that raises (already set, unknown name
\* or unsupported compression) leaves the TarFileName, that is basename,
\* extensions and compression, as it was; and when no compression was set,
\* the next assignment of None or of a supported compression succeeds.
C20_FailedSetFrame ==
    [][op' = "set_compression" =>
          /\ err' # "" =>
                /\ out' = out
                /\ err' \in {"compression is already set",
                              "unknown compression scheme",
                              "compression scheme is unsupported"}
          /\ (/\ op = "set_compression"
              /\ err # ""
              /\ out.compression = unset
              /\ ValidSet(arg', registry = LoadedPy3)) =>
                /\ err' = ""
                /\ out'.compression = IF arg' = None THEN None
                                       ELSE lookup_compression(registry, Requested(arg'))]_vars

\* the assignment of a name that is not registered raised and left the
\* TarFileName with no compression set, and one more call can be made
C20_Witness ==
    /\ op = "set_compression"
    /\ err = "unknown compression scheme"
    /\ lookups = <<<<"e">>>>
    /\ out = self
    /\ out.compression = unset
    /\ calls < MaxCalls

----------------------------------------------------------------------------
(* Properties of the declarations of compressions.                         *)

\* C21: Compression(name, supported, *extensions) raises exactly when the
\* name is declared already, or no extension is given, or one of the
\* extensions is in the table of extensions already ("tar" is from the
\* start); a call that raises leaves both tables as they were; and no call
\* replaces or removes what a name or an extension was mapped to.
C21_RegistrationFails ==
    [][op' = "Compression" =>
          /\ err' # "" <=>
                \/ arg'.name \in DOMAIN registry.compressions
                \/ arg'.extensions = <<>>
                \/ \E i \in 1..Len(arg'.extensions) :
                       arg'.extensions[i] \in DOMAIN registry.extensions
          /\ err' # "" => registry' = registry /\ out' = None
          /\ \A n \in DOMAIN registry.compressions :
                /\ n \in DOMAIN registry'.compressions
                /\ registry'.compressions[n] = registry.compressions[n]
          /\ \A e \in DOMAIN registry.extensions :
                /\ e \in DOMAIN registry'.extensions
                /\ registry'.extensions[e] = registry.extensions[e]]_vars

\* a new name was declared with a new extension and with "tar", and the call
\* raised
C21_Witness ==
    /\ op = "Compression"
    /\ arg.name = <<"p">>
    /\ arg.extensions = <<<<"p">>, s_tar>>
    /\ err = "extensions already declared for other compressions"
    /\ <<"p">> \notin DOMAIN registry.compressions
    /\ <<"p">> \notin DOMAIN registry.extensions

\* C22: after Compression(name, supported, e1, ..., en) succeeded, the name
\* is mapped to the object returned, whose extension is "." and e1; ".e1"
\* is mapped to an entry with that object and no archive flag; each of ".e2"
\* to ".en" is mapped to an entry with that object and the archive flag; and
\* what was declared before is mapped as before.
C22_RegistrationEntries ==
    [][(op' = "Compression" /\ err' = "") =>
          LET es == arg'.extensions
          IN  /\ lookup_compression(registry', arg'.name) = out'
              /\ out' = [name |-> arg'.name, supported |-> arg'.supported,
                         extension |-> <<".">> \o es[1]]
              /\ lookup_extension(registry', <<".">> \o es[1]) =
                     [compression |-> out']
              /\ \A i \in 2..Len(es) :
                    lookup_extension(registry', <<".">> \o es[i]) =
                        [compression |-> out', has_tar_ext |-> TRUE]
              /\ \A n \in DOMAIN registry.compressions :
                    lookup_compression(registry', n) = registry.compressions[n]
              /\ \A e \in DOMAIN registry.extensions :
                    lookup_extension(registry', <<".">> \o e) =
                        registry.extensions[e]]_vars

----------------------------------------------------------------------------
(* Properties of cached properties.                                        *)

\* the values that the control attributes of cp have on obj
ControlValues(cp, obj) ==
    [attr \in cp.attrs |-> IF cp.base = "" THEN obj[attr] ELSE obj[cp.base][attr]]

\* the control record of cp on obj, None when there is none
ControlRecord(cp, obj) ==
    IF "__cache_control__" \in DOMAIN obj
    THEN DictGet(obj["__cache_control__"], cp.prop)
    ELSE None

\* C23: a read that returns calls the getter exactly when no value is
\* cached, or there is no control record of the property, or the control
\* attributes differ from the record; otherwise it returns the cached value.
\* After the read the value stored is the value returned and the record is
\* the control attributes; the getter of a property with no control
\* attribute is called at most once.
C23_CacheRead ==
    /\ (op = "read" /\ err = "") =>
          LET cp == arg
              compute == \/ cp.cache_attr \notin DOMAIN self
                         \/ ControlRecord(cp, self) = None
                         \/ ControlRecord(cp, self) # ControlValues(cp, self)
          IN  /\ IF compute
                 THEN /\ Len(out["calls"]) = Len(self["calls"]) + 1
                      /\ out["calls"][Len(out["calls"])][1] = cp.func
                 ELSE /\ out["calls"] = self["calls"]
                      /\ ret = self[cp.cache_attr]
              /\ out[cp.cache_attr] = ret
              /\ ControlRecord(cp, out) = ControlValues(cp, out)
    /\ out # None =>
          Cardinality({i \in 1..Len(out["calls"]) :
                          out["calls"][i] = <<"simple">>}) <= 1

\* a control attribute was assigned after the value was cached, and the
\* read called the getter again
C23_Witness ==
    /\ op = "read"
    /\ err = ""
    /\ arg.prop = "under_a_b"
    /\ arg.cache_attr \in DOMAIN self
    /\ ControlRecord(arg, self) # None
    /\ ControlRecord(arg, self) # ControlValues(arg, self)
    /\ Len(out["calls"]) = Len(self["calls"]) + 1
    /\ out[arg.cache_attr] # self[arg.cache_attr]

----------------------------------------------------------------------------
(* Properties of workdir.                                                  *)

\* C24: entering workdir(path) makes path the working directory and binds
\* the directory that was current before; leaving the block, normally or
\* by an exception, makes that directory current again, and the exception
\* leaves the with statement.
C24_WorkdirRestores ==
    [][/\ (op' = "workdir" /\ op # "workdir")
            => /\ cwd' = os_path_normpath(os_path_join(cwd, <<path'>>))
               /\ out' = cwd
       /\ (op \in {"workdir", "raise"} /\ op' = "exit")
            => /\ cwd' = out
               /\ op = "raise" => err' = "TestException"
               /\ op = "workdir" => err' = ""]_vars

\* a block that was entered by changing to another directory has raised,
\* and the statement has restored the directory it was entered from
C24_Witness ==
    /\ op = "exit"
    /\ err = "TestException"
    /\ out # None
    /\ cwd = out
    /\ cwd # os_path_normpath(os_path_join(out, <<path>>))

----------------------------------------------------------------------------
(* Properties of RelPath.                                                  *)

\* p is root or lies below it
Descendant(p, droot) ==
    \/ droot = root
    \/ p = droot
    \/ startswith(p, droot \o sep)

\* C25: RelPath(path, start, root) raises ValueError when the absolute path
\* or the absolute start does not lie below root.
C25_OutsideRootRaises ==
    (/\ op = "RelPath"
     /\ path # <<>>
     /\ os_path_isabs(path) /\ os_path_isabs(arg.start)
     /\ \/ ~Descendant(os_path_normpath(path), arg.root)
        \/ ~Descendant(os_path_normpath(arg.start), arg.root))
    => err = "ValueError"

\* C26: RelPath of the empty path raises "no path specified" and has handed
\* no path to abspath.
C26_EmptyPathRaises ==
    (op = "RelPath" /\ path = <<>>)
    => /\ err = "no path specified"
       /\ out = None
       /\ lookups = <<>>

\* the empty path was given with a start that resolves
C26_Witness ==
    /\ op = "RelPath"
    /\ path = <<>>
    /\ arg.start = <<"/", "a">>
    /\ err # ""

\* C28: for absolute normalized strings p and s, RelPath(p, s) has the
\* parent count and the remainder of FSPath(p).relative(FSPath(s)), and the
\* two have the same string.
C28_RelPathIsRelative ==
    (/\ op \in {"RelPath", "str"}
     /\ arg.root = root
     /\ os_path_isabs(path) /\ os_path_normpath(path) = path
     /\ os_path_isabs(arg.start) /\ os_path_normpath(arg.start) = arg.start)
    => LET rel == FSPath_relative(FSPath_new(path, None),
                                  FSPath_new(arg.start, None))
       IN  /\ err = "" /\ rel.err = ""
           /\ out.parents = rel.out.parents
           /\ out.remainder = FSPath_remainder(rel.out)
           /\ RelPath_str(out) = FSPath_str(rel.out)
           /\ op = "str" => ret = FSPath_str(rel.out)

\* the string of a RelPath that climbs from its start and then descends
C28_Witness ==
    /\ op = "str"
    /\ arg.root = root
    /\ path = <<"/", "a", "/", "b", "/", "c">>
    /\ arg.start = <<"/", "a", "/", "x">>
    /\ out.parents = 1
    /\ ret = <<".", ".", "/", "b", "/", "c">>

----------------------------------------------------------------------------
(* Further properties of FSPath.                                           *)

\* C27: split_system_path of a path of n ".." segments and an absolute
\* normalized system path of at least n components returns the system path
\* without its last n components and those components joined, and joining
\* the two gives the system path back, also when the first is the root; of
\* a path with no parents it returns the normalized system path and the
\* joined segments, or "." when there are none.
C27_SplitValues ==
    (op = "split_system_path" /\ ~self.absolute)
    => LET n == self.parents
           comps == NonEmpty(split(path, sep))
           k == Len(comps)
       IN  /\ (/\ n > 0 /\ Len(self.elems) = n
               /\ \A i \in 1..n : self.elems[i] = pardir
               /\ os_path_isabs(path) /\ os_path_normpath(path) = path
               /\ k >= n)
              => /\ err = ""
                 /\ ret[1] = root \o join(SubSeq(comps, 1, k - n), sep)
                 /\ ret[2] = join(SubSeq(comps, k - n + 1, k), sep)
                 /\ os_path_join(ret[1], <<ret[2]>>) = path
           /\ n = 0
              => /\ err = ""
                 /\ ret[1] = os_path_normpath(path)
                 /\ ret[2] = IF self.elems = <<>> THEN curdir
                             ELSE join(self.elems, sep)

\* C29: FSPath(s, relative=a) with an absolute a is the value that FSPath(s)
\* gives when it is then made absolute against a, also when s climbs above
\* the root.
C29_NewWithReference ==
    (op = "new" /\ arg # None /\ arg.absolute)
    => LET r == FSPath_absolute(FSPath_new(path, None), arg)
       IN  r.err = "" /\ out = r.out

\* a string that climbs above its reference was parsed against it
C29_Witness ==
    /\ op = "new"
    /\ arg # None /\ arg.absolute
    /\ path = <<".", ".", "/", ".", ".">>
    /\ Len(arg.elems) = 1
    /\ out = FSPath(<<>>, 0, TRUE)

----------------------------------------------------------------------------
(* Further properties of TarFileName.                                      *)

\* a file name that does not end with the separator and has no doubled
\* separator
PlainName(f) ==
    /\ f # <<>>
    /\ f[Len(f)] # "/"
    /\ Find(f, sep \o sep) = 0

\* C30: for a file name f that does not end with a separator, has a
\* normalized directory part and parses, str(TarFileName(f)) is f when an
\* archive extension was found in f, and f followed by ".tar" otherwise.
C30_StrRoundTrip ==
    LET expected == IF RefParse(path, registry = LoadedPy3).archive THEN path
                    ELSE path \o <<".", "t", "a", "r">>
    IN  /\ (op = "TarFileName" /\ err = "" /\ PlainName(path))
            => TarFileName_str(out) = expected
        /\ (op = "str" /\ calls = 2 /\ PlainName(path))
            => ret = expected

\* the string of a name in a directory, parsed with two extensions of
\* which the first is an archive extension
C30_Witness ==
    /\ op = "str"
    /\ calls = 2
    /\ Find(path, sep) # 0
    /\ Len(self.extensions) = 2
    /\ ret = path

====
